---- MODULE Spec2Model ----
(***************************************************************************)
(* Model of the Nusuk booking automation: NusukBot.run_automation and its  *)
(* driver setup, the per-record step pipeline, the Google Sheets record    *)
(* source / status sink, and the cleanup path.                             *)
(*                                                                         *)
(* Text is modelled as a sequence of one-character strings so that         *)
(* str.lower(), substring search and equality are computed, not assumed.   *)
(***************************************************************************)
EXTENDS Integers, Sequences, FiniteSets, TLC

(***************************************************************************)
(* Bounds                                                                  *)
(***************************************************************************)
\* data rows below the header in the sheets of the run specification
MaxRows == 2
\* data rows below the header in the sheets of the fetch specification
MaxFetchRows == 2

(***************************************************************************)
(* Text                                                                    *)
(***************************************************************************)
UpperChars == <<"A","B","C","D","E","F","G","H","I","J","K","L","M",
                "N","O","P","Q","R","S","T","U","V","W","X","Y","Z">>
LowerChars == <<"a","b","c","d","e","f","g","h","i","j","k","l","m",
                "n","o","p","q","r","s","t","u","v","w","x","y","z">>

\* the lower-case letter of every upper-case letter
LowerOf ==
    [c \in { UpperChars[i] : i \in 1..Len(UpperChars) } |->
        LowerChars[CHOOSE i \in 1..Len(UpperChars) : UpperChars[i] = c]]

\* str.lower() of one character
LowerChar(c) == IF c \in DOMAIN LowerOf THEN LowerOf[c] ELSE c

\* str.lower()
Lower(s) == [i \in 1..Len(s) |-> LowerChar(s[i])]

\* Python's  sub in s
Contains(s, sub) ==
    \E k \in 0..(Len(s) - Len(sub)) :
        \A j \in 1..Len(sub) : s[k + j] = sub[j]

\* literals of the source
sStatusLit  == <<"s","t","a","t","u","s">>
sPendingLit == <<"p","e","n","d","i","n","g">>
sInProgress == <<"I","n"," ","P","r","o","g","r","e","s","s">>
sFailed     == <<"F","a","i","l","e","d">>
sManualEmail == <<"M","A","N","U","A","L","_","I","N","P","U","T","_",
                  "C","O","M","P","L","E","T","E","D">>

\* cell texts used to build sheets
sEmpty      == << >>
sSTATUS     == <<"S","T","A","T","U","S">>
sVisaStatus == <<"V","i","s","a"," ","S","t","a","t","u","s">>
sName       == <<"N","a","m","e">>
sPendingCap == <<"P","e","n","d","i","n","g">>
sPENDING    == <<"P","E","N","D","I","N","G">>
sPendingSp  == <<"p","e","n","d","i","n","g"," ">>
sDone       == <<"D","o","n","e">>

(***************************************************************************)
(* GoogleSheetsService.get_pending_records, the part after the read        *)
(***************************************************************************)
\* the header test of the STATUS column search
IsStatusHeader(h) == h # sEmpty /\ Contains(Lower(h), sStatusLit)

\* variant: the search starts from column 1 instead of None
StatusColumnIndexDefaultFirst(headers) ==
    IF \E i \in 1..Len(headers) : IsStatusHeader(headers[i])
    THEN CHOOSE i \in 1..Len(headers) :
            /\ IsStatusHeader(headers[i])
            /\ \A j \in 1..(i - 1) : ~IsStatusHeader(headers[j])
    ELSE 1

\* index (1-based) of the first header containing 'status', 0 when none
StatusColumnIndex(headers) ==
    IF \E i \in 1..Len(headers) : IsStatusHeader(headers[i])
    THEN CHOOSE i \in 1..Len(headers) :
            /\ IsStatusHeader(headers[i])
            /\ \A j \in 1..(i - 1) : ~IsStatusHeader(headers[j])
    ELSE 0

\* the test applied to the status cell of a data row
IsPendingCell(status) == status # sEmpty /\ Lower(status) = sPendingLit

\* variant: the status cell is compared without lower()
RowIsPendingCaseSensitive(row, sc) == Len(row) >= sc /\ row[sc] = sPendingLit

\* does the data row at position k of values (k >= 2) become a record
RowIsPending(row, sc) == Len(row) >= sc /\ IsPendingCell(row[sc])

RECURSIVE PendingFrom(_, _, _)
PendingFrom(values, sc, k) ==
    IF k > Len(values) THEN << >>
    ELSE IF RowIsPending(values[k], sc)
         THEN <<[row_number |-> k, data |-> values[k]]>>
                  \o PendingFrom(values, sc, k + 1)
         ELSE PendingFrom(values, sc, k + 1)

\* result of get_pending_records when the read returned values
GetPendingRecords(values) ==
    IF values = << >> THEN << >>
    ELSE IF StatusColumnIndex(values[1]) = 0 THEN << >>
    ELSE PendingFrom(values, StatusColumnIndex(values[1]), 2)


(***************************************************************************)
(* Status sink: update_record_status / update_email_used / log_error       *)
(***************************************************************************)
\* column letters of the sink, as 1-based column numbers (A = 1)
ColH == 8
ColM == 13
ColN == 14

\* a row padded with empty cells up to column c
PadRow(row, c) ==
    [i \in 1..(IF Len(row) >= c THEN Len(row) ELSE c) |->
        IF i <= Len(row) THEN row[i] ELSE sEmpty]

\* variant: the update appends v to what the cell holds
SetCellAppending(vals, r, c, v) ==
    [k \in 1..(IF Len(vals) >= r THEN Len(vals) ELSE r) |->
        IF k = r
        THEN LET old == PadRow(IF k <= Len(vals) THEN vals[k] ELSE << >>, c)
             IN  [old EXCEPT ![c] = old[c] \o v]
        ELSE IF k <= Len(vals) THEN vals[k] ELSE << >>]

\* variant: the update replaces the whole row by the one value
SetCellWholeRow(vals, r, c, v) ==
    [k \in 1..(IF Len(vals) >= r THEN Len(vals) ELSE r) |->
        IF k = r
        THEN [i \in 1..c |-> IF i = c THEN v ELSE sEmpty]
        ELSE IF k <= Len(vals) THEN vals[k] ELSE << >>]

\* the sheet after values().update of the single cell (r, c) with RAW value v
SetCell(vals, r, c, v) ==
    [k \in 1..(IF Len(vals) >= r THEN Len(vals) ELSE r) |->
        IF k = r
        THEN [PadRow(IF k <= Len(vals) THEN vals[k] ELSE << >>, c) EXCEPT ![c] = v]
        ELSE IF k <= Len(vals) THEN vals[k] ELSE << >>]

\* update_record_status: column H of the row; ok = the API call succeeded
UpdateRecordStatus(vals, row, status, ok) ==
    IF ok THEN SetCell(vals, row, ColH, status) ELSE vals

\* update_email_used: column M of the row
UpdateEmailUsed(vals, row, email, ok) ==
    IF ok THEN SetCell(vals, row, ColM, email) ELSE vals

\* log_error: column N of the row
LogError(vals, row, msg, ok) ==
    IF ok THEN SetCell(vals, row, ColN, msg) ELSE vals

\* what a sink operation returns to its caller: True after the update,
\* False from its except clause; it never raises
SinkReturn(ok) == IF ok THEN "True" ELSE "False"

\* one call of a sink operation, as recorded by the model
SinkCall(op, row, v, ok) ==
    [op |-> op, row |-> row, value |-> v, ok |-> ok, ret |-> SinkReturn(ok)]

\* the sheet after the sink call c
ApplySink(vals, c) ==
    CASE c.op = "status" -> UpdateRecordStatus(vals, c.row, c.value, c.ok)
      [] c.op = "email"  -> UpdateEmailUsed(vals, c.row, c.value, c.ok)
      [] OTHER           -> LogError(vals, c.row, c.value, c.ok)

\* cell (r, c) of the sheet, empty when the sheet has no such cell
Cell(vals, r, c) ==
    IF r <= Len(vals) /\ c <= Len(vals[r]) THEN vals[r][c] ELSE sEmpty

(***************************************************************************)
(* OTP extraction: TempEmailServiceV2._extract_otp_from_text and            *)
(* TempEmailService.extract_otp_from_email                                 *)
(***************************************************************************)
\* tokens a message text is put together from, at most this many
MaxTokens == 2

Digits == {"0","1","2","3","4","5","6","7","8","9"}

\* \d
IsDigit(c) == c \in Digits

\* \w
WordChars ==
    Digits \cup {"_"} \cup
    { LowerChars[i] : i \in 1..Len(LowerChars) } \cup
    { UpperChars[i] : i \in 1..Len(UpperChars) }
IsWordChar(c) == c \in WordChars

\* the characters of [:\s]
IsSeparator(c) == c \in {":", " ", "\n", "\t"}

\* None, the result of an extraction that found nothing
NoOtp == << >>

\* number of consecutive digits of t from position i on
RECURSIVE DigitsFrom(_, _)
DigitsFrom(t, i) ==
    IF i <= Len(t) /\ IsDigit(t[i]) THEN 1 + DigitsFrom(t, i + 1) ELSE 0

\* \b between t[i-1] and t[i]
WordAt(t, i) == i \in 1..Len(t) /\ IsWordChar(t[i])
WordBoundary(t, i) == WordAt(t, i - 1) # WordAt(t, i)

\* first position from j on that [:\s]* does not take
RECURSIVE SkipSeparators(_, _)
SkipSeparators(t, j) ==
    IF j <= Len(t) /\ IsSeparator(t[j]) THEN SkipSeparators(t, j + 1) ELSE j

sOTP          == <<"O","T","P">>
sVerification == <<"v","e","r","i","f","i","c","a","t","i","o","n">>
sCode         == <<"c","o","d","e">>

\* otp_patterns: a pattern is a literal prefix followed by [:\s]* (none for
\* the first and the last pattern) and \d{4,6}; the first pattern is
\* enclosed in \b
OtpPatterns ==
    << [prefix |-> << >>,         bounded |-> TRUE],
       [prefix |-> sOTP,          bounded |-> FALSE],
       [prefix |-> sVerification, bounded |-> FALSE],
       [prefix |-> sCode,         bounded |-> FALSE],
       [prefix |-> << >>,         bounded |-> FALSE] >>

\* variant: the quantifier is {3,6}
DigitsTakenFromThree(p, t, i) ==
    LET d  == DigitsFrom(t, i)
        ns == { n \in 3..6 :
                  /\ n <= d
                  /\ p.bounded => WordBoundary(t, i + n) }
    IN  IF d < 3 \/ ns = {} THEN 0 ELSE CHOOSE n \in ns : \A m \in ns : m <= n

\* digits \d{4,6} takes at position i: as many as there are, up to 6; with
\* \b behind it, the largest count in 4..6 that ends at a word boundary
DigitsTaken(p, t, i) ==
    LET d  == DigitsFrom(t, i)
        ns == { n \in 4..6 :
                  /\ n <= d
                  /\ p.bounded => WordBoundary(t, i + n) }
    IN  IF d < 4 \/ ns = {} THEN 0 ELSE CHOOSE n \in ns : \A m \in ns : m <= n

\* what re.findall reports for a match of pattern p starting at position
\* i of t (the group, or the whole match of the first pattern); NoOtp when
\* p does not match there.  re.IGNORECASE: the prefix is compared in lower
\* case.
MatchAt(p, t, i) ==
    IF /\ p.bounded => WordBoundary(t, i)
       /\ i + Len(p.prefix) - 1 <= Len(t)
       /\ \A k \in 1..Len(p.prefix) :
            LowerChar(t[i + k - 1]) = LowerChar(p.prefix[k])
    THEN LET j == IF p.prefix = << >> THEN i
                  ELSE SkipSeparators(t, i + Len(p.prefix))
             n == DigitsTaken(p, t, j)
         IN  IF n = 0 THEN NoOtp ELSE SubSeq(t, j, j + n - 1)
    ELSE NoOtp

\* re.findall(p, t, re.IGNORECASE)[0], NoOtp when the list is empty
RECURSIVE FirstMatchFrom(_, _, _)
FirstMatchFrom(p, t, i) ==
    IF i > Len(t) THEN NoOtp
    ELSE LET m == MatchAt(p, t, i)
         IN  IF m # NoOtp THEN m ELSE FirstMatchFrom(p, t, i + 1)

FirstMatch(p, t) == FirstMatchFrom(p, t, 1)

\* len(otp) >= 4 and len(otp) <= 6 and otp.isdigit()
ValidOtp(o) == Len(o) >= 4 /\ Len(o) <= 6 /\ \A i \in 1..Len(o) : IsDigit(o[i])

\* first match of the first pattern of the list, from pattern k on, that
\* has a match in t
RECURSIVE FirstPatternMatch(_, _)
FirstPatternMatch(t, k) ==
    IF k > Len(OtpPatterns) THEN NoOtp
    ELSE LET m == FirstMatch(OtpPatterns[k], t)
         IN  IF m # NoOtp THEN m ELSE FirstPatternMatch(t, k + 1)

\* _extract_otp_from_text: as above, a match that is not 4 to 6 digits
\* being passed over
RECURSIVE ExtractFrom(_, _)
ExtractFrom(t, k) ==
    IF k > Len(OtpPatterns) THEN NoOtp
    ELSE LET m == FirstMatch(OtpPatterns[k], t)
         IN  IF m # NoOtp /\ ValidOtp(m) THEN m ELSE ExtractFrom(t, k + 1)

ExtractOtpFromText(text) == ExtractFrom(text, 1)

\* variant: the subject is searched before the body
ExtractOtpFromEmailSubjectFirst(b, sub) ==
    LET m == FirstPatternMatch(sub, 1)
    IN  IF m # NoOtp THEN m ELSE FirstPatternMatch(b, 1)

\* extract_otp_from_email: the body is searched with every pattern, then
\* the subject
ExtractOtpFromEmail(b, sub) ==
    LET m == FirstPatternMatch(b, 1)
    IN  IF m # NoOtp THEN m ELSE FirstPatternMatch(sub, 1)

\* message texts: digit runs of one, three, four and six digits,
\* separators, the words of the patterns, the opening of a usual message
\* and a seven-digit number followed by a space
sDigit1     == <<"7">>
sDigit3     == <<"4","8","2">>
sDigit4     == <<"4","8","2","7">>
sDigit6     == <<"4","8","2","9","1","3">>
sYourCodeIs == <<"Y","o","u","r"," ","c","o","d","e"," ","i","s"," ">>
sRefNumber  == <<"9","0","5","1","2","3","4"," ">>
OtpTokens ==
    { sDigit1, sDigit3, sDigit4, sDigit6, <<" ">>, <<":">>,
      sOTP, sVerification, sCode, sYourCodeIs, sRefNumber }

RECURSIVE TextsUpTo(_)
TextsUpTo(n) ==
    IF n = 0 THEN { << >> }
    ELSE LET shorter == TextsUpTo(n - 1)
         IN  shorter \cup { t \o k : t \in shorter, k \in OtpTokens }

\* subjects: none, a four-digit code, a labelled six-digit code
OtpSubjects ==
    { << >>, sDigit4, sOTP \o <<":", " ">> \o sDigit6 }

(***************************************************************************)
(* The step pipeline of process_record                                     *)
(***************************************************************************)
Steps == <<"navigate", "switch_language", "select_guest_type",
           "fill_identity", "fill_personal", "create_account", "verify_otp">>

NumSteps == Len(Steps)

\* str(e) of an exception raised while a record is processed
sErrMsg == <<"M","e","s","s","a","g","e",":"," ","e","r","r">>

\* what a step leaves behind on the site when it runs to success
StepEffect(k) ==
    CASE Steps[k] = "fill_identity"  -> {"typed_identity"}
      [] Steps[k] = "fill_personal"  -> {"typed_personal"}
      [] Steps[k] = "create_account" -> {"account_created"}
      [] OTHER -> {}

\* variant: create_account does not store the placeholder
EmailAfterStepNotStored(k, res, email) == email

\* variant: the placeholder is stored where create_account returns False
EmailAfterStepStoredOnFailure(k, res, email) ==
    IF Steps[k] = "create_account" /\ res = "fail" THEN sManualEmail ELSE email

\* self.current_email after step k returned (create_account stores the
\* placeholder on both of its True paths, nothing else assigns it)
EmailAfterStep(k, res, email) ==
    IF Steps[k] = "create_account" /\ res = "ok" THEN sManualEmail ELSE email

\* variant: the result of a step is not tested
AfterStepUnchecked(k, res) ==
    IF res = "raise" THEN "except"
    ELSE IF k < NumSteps THEN "next_step" ELSE "all_steps_ok"

\* process_record after step k returned res: go on to the next step,
\* finish the record, or return False at once
AfterStep(k, res) ==
    CASE res = "ok"   -> (IF k < NumSteps THEN "next_step" ELSE "all_steps_ok")
      [] res = "fail" -> "return_false"
      [] OTHER        -> "except"

\* results a step can return to process_record.  Every step body is one
\* try/except Exception returning False, so "raise" stands for an exception
\* that leaves the step's own handler.  navigate_to_nusuk with no driver
\* fails on self.driver.get and returns False.
StepResults(k, drv) ==
    IF Steps[k] = "navigate" /\ drv = 0 THEN {"fail"}
    ELSE {"ok", "fail", "raise"}

(***************************************************************************)
(* Driver setup and the stealth profile                                    *)
(***************************************************************************)
\* value returned by each _setup_*_driver when it ran to its end
FirefoxReturn    == "True"
UndetectedReturn == "None"
StandardReturn   == "None"

\* Python truth value of such a return value
Truthy(ret) == ret = "True"

\* outcomes of _create_stealth_profile: the directory is made and recorded
\* in self.temp_dir; mkdtemp itself fails; or mkdtemp succeeds and a later
\* makedirs / file write fails, before self.temp_dir is assigned
ProfileOutcomes == {"created", "mkdtemp_failed", "write_failed"}

\* number of directories made so far, after _create_stealth_profile
DirsAfterCreate(n, o) == IF o = "mkdtemp_failed" THEN n ELSE n + 1

\* self.temp_dir after _create_stealth_profile
TempDirAfterCreate(td, n, o) == IF o = "created" THEN n + 1 ELSE td

\* directories on disk after _create_stealth_profile
ExistingAfterCreate(ex, n, o) ==
    IF o = "mkdtemp_failed" THEN ex ELSE ex \cup {n + 1}

\* directories on disk after _cleanup_stealth_profile; removed = rmtree
\* deleted the tree (ignore_errors=True hides a failed deletion)
ExistingAfterCleanup(ex, td, removed) ==
    IF td # 0 /\ removed THEN ex \ {td} ELSE ex

(***************************************************************************)
(* State                                                                   *)
(***************************************************************************)
VARIABLES
    pc,            \* position in run_automation
    values,        \* the sheet: rows of cells, row 1 the header
    driver,        \* self.driver: 0 for None, else the driver's id
    nDrivers,      \* browser drivers created so far (ids 1..nDrivers)
    quitted,       \* ids of the drivers released with quit()
    tempDir,       \* self.temp_dir: 0 when unset, else the directory's id
    nDirs,         \* temporary directories made so far (ids 1..nDirs)
    dirsExisting,  \* ids of the temporary directories on disk
    setupLog,      \* the _setup_*_driver calls made, in order
    setupResult,   \* what setup_driver returned ("unset" before it has)
    pending,       \* pending_records of run_automation
    fetches,       \* number of get_pending_records calls
    readFailed,    \* the sheet read of the fetch raised
    fetchRaised,   \* get_pending_records raised to its caller
    idx,           \* position of the loop in pending
    stepNo,        \* step process_record is about to invoke
    invoked,       \* steps invoked by the process_record call in progress
    effects,       \* what those steps left on the site
    currentEmail,  \* self.current_email
    sinkCalls,     \* the sink calls made, in order
    processed,     \* row numbers process_record was invoked for, in order
    outcomes,      \* what each process_record call did
    escaped,       \* an exception left run_automation
    body,          \* body of the message an extraction is applied to
    subject,       \* subject of that message
    extractedBy,   \* the extraction functions that have been applied
    textOtp,       \* what _extract_otp_from_text(body) returned
    emailOtp,      \* what extract_otp_from_email(message) returned
    elapsed,       \* time.time() - start_time of monitor_inbox_for_otp
    maxWaitTime,   \* max_wait_time the monitor was called with
    polls,         \* the get_otp calls of the monitor, in order
    monitorResult, \* what monitor_inbox_for_otp returned
    serviceUsed,   \* self.service_used of the mail service
    authToken,     \* self.auth_token is set
    inbox,         \* texts of the messages delivered to the mailbox
    callsOk,       \* the provider answered the calls of the last get_otp
    gotOtp,        \* what get_otp returned
    manualStep,    \* the manual step being run
    page,          \* what the page shows to the probes of the step
    ticks,         \* one-second sleeps of the countdown done so far
    probed,        \* the probes the step has made
    manualResult,  \* what the manual step returned
    locator,       \* the selector list a step is working through
    attempts,      \* the variants tried so far, in order, with what happened
    locResult,     \* what the loop over the list led to
    refetched,     \* what a get_pending_records call after the run returned
    recordData,    \* record_data of the record fill_initial_info works on
    typed,         \* what was typed into the passport field
    passportFilled \* passport_filled of fill_initial_info

otpVars == <<body, subject, extractedBy, textOtp, emailOtp>>

pollVars == <<elapsed, maxWaitTime, polls, monitorResult>>
mailVars == <<serviceUsed, authToken, inbox, callsOk, gotOtp>>
manualVars == <<manualStep, page, ticks, probed, manualResult>>
locVars == <<locator, attempts, locResult>>

\* the state of the components modelled after the manual steps
rerunVars == <<refetched>>
passportVars == <<recordData, typed, passportFilled>>
lateVars == <<locVars, rerunVars, passportVars>>

\* what the run, the fetch and the sink calls leave alone
auxVars == <<otpVars, pollVars, mailVars, manualVars, lateVars>>

vars == <<auxVars, pc, values, driver, nDrivers, quitted, tempDir, nDirs, dirsExisting,
          setupLog, setupResult, pending, fetches, readFailed, fetchRaised, idx,
          stepNo,
          invoked, effects, currentEmail, sinkCalls, processed, outcomes,
          escaped>>

\* what the run works on, apart from pc
runVars == <<values, driver, nDrivers, quitted, tempDir, nDirs, dirsExisting,
             setupLog, setupResult, pending, fetches, readFailed, fetchRaised,
             idx, stepNo, invoked, effects, currentEmail, sinkCalls, processed,
             outcomes, escaped>>

\* the same without self.current_email
runVarsButEmail ==
    <<values, driver, nDrivers, quitted, tempDir, nDirs, dirsExisting,
      setupLog, setupResult, pending, fetches, readFailed, fetchRaised,
      idx, stepNo, invoked, effects, sinkCalls, processed, outcomes, escaped>>

setupVars  == <<driver, nDrivers, tempDir, nDirs, dirsExisting, setupLog,
                setupResult>>
recordVars == <<stepNo, invoked, effects, currentEmail, sinkCalls, processed,
                outcomes>>
fetchVars  == <<pending, fetches, readFailed, fetchRaised, idx>>

(***************************************************************************)
(* Sheets the specifications start from                                    *)
(***************************************************************************)
\* run specification: the status header sits in column sc, every data row
\* reaches that column
RunStatusCols == {ColH}
RunCells == {sPendingCap, sDone}
RunHeader(sc) == [i \in 1..sc |-> IF i = sc THEN sSTATUS ELSE sName]
RunRow(sc, c) == [i \in 1..sc |-> IF i = sc THEN c ELSE sName]
RunSheetsAt(sc) ==
    { <<RunHeader(sc)>> \o rows :
        rows \in UNION { [1..n -> {RunRow(sc, c) : c \in RunCells}] :
                          n \in 0..MaxRows } }
RunSheets == UNION { RunSheetsAt(sc) : sc \in RunStatusCols }

\* fetch specification: header rows and data rows of every shape the
\* fetch distinguishes
FetchHeaders ==
    { << >>,
      <<sName>>,
      <<sSTATUS>>,
      <<sName, sStatusLit>>,
      <<sEmpty, sVisaStatus>>,
      <<sVisaStatus, sSTATUS>>,
      <<sName, sDone>> }
FetchRows ==
    { << >>,
      <<sName>>,
      <<sPendingLit>>,
      <<sPENDING, sDone>>,
      <<sName, sPendingCap>>,
      <<sDone, sPendingSp>>,
      <<sEmpty, sPendingLit, sName>>,
      <<sPendingCap, sEmpty>> }
FetchSheets ==
    { << >> } \cup
    { <<h>> \o rows :
        h \in FetchHeaders,
        rows \in UNION { [1..n -> FetchRows] : n \in 0..MaxFetchRows } }

(***************************************************************************)
(* get_pending_records as its caller sees it                               *)
(***************************************************************************)
\* readOk = values().get(...).execute() returned.  The except clause of
\* get_pending_records logs and returns [], so nothing is raised either way.
FetchOutcome(vals, readOk) ==
    IF readOk
    THEN [raised |-> FALSE, records |-> GetPendingRecords(vals)]
    ELSE [raised |-> FALSE, records |-> << >>]

(***************************************************************************)
(* Initial states                                                          *)
(***************************************************************************)
InitRest ==
    /\ driver = 0
    /\ nDrivers = 0
    /\ quitted = {}
    /\ tempDir = 0
    /\ nDirs = 0
    /\ dirsExisting = {}
    /\ setupLog = << >>
    /\ setupResult = "unset"
    /\ pending = << >>
    /\ fetches = 0
    /\ readFailed = FALSE
    /\ fetchRaised = FALSE
    /\ idx = 1
    /\ stepNo = 1
    /\ invoked = << >>
    /\ effects = {}
    /\ currentEmail = sEmpty
    /\ sinkCalls = << >>
    /\ processed = << >>
    /\ outcomes = << >>
    /\ escaped = FALSE

\* no message at hand
InitOtp ==
    /\ body = << >>
    /\ subject = << >>
    /\ extractedBy = {}
    /\ textOtp = NoOtp
    /\ emailOtp = NoOtp

\* no monitor running
InitPoll ==
    /\ elapsed = 0
    /\ maxWaitTime = 0
    /\ polls = << >>
    /\ monitorResult = "unset"

\* TempEmailServiceV2(): no address generated, nothing delivered
InitMail ==
    /\ serviceUsed = "None"
    /\ authToken = FALSE
    /\ inbox = << >>
    /\ callsOk = FALSE
    /\ gotOtp = NoOtp

\* no manual step running
InitManual ==
    /\ manualStep = "none"
    /\ page = [otpField |-> FALSE, errorWord |-> FALSE,
               successWord |-> FALSE, successIndicator |-> FALSE]
    /\ ticks = 0
    /\ probed = {}
    /\ manualResult = "unset"

\* no selector list being worked through
InitLoc ==
    /\ locator = "none"
    /\ attempts = << >>
    /\ locResult = "unset"

\* no second fetch made
InitRerun == refetched = << >>

\* fill_initial_info not entered
InitPassport ==
    /\ recordData = << >>
    /\ typed = "unset"
    /\ passportFilled = FALSE

InitLate == InitLoc /\ InitRerun /\ InitPassport

InitAux == InitOtp /\ InitPoll /\ InitMail /\ InitManual /\ InitLate

\* NusukBot() constructed, run_automation entered
Init ==
    /\ pc = "setup_firefox"
    /\ values \in RunSheets
    /\ InitRest
    /\ InitAux

\* a GoogleSheetsService about to serve get_pending_records
FetchInit ==
    /\ pc = "fetch"
    /\ values \in FetchSheets
    /\ InitRest
    /\ InitAux

(***************************************************************************)
(* setup_driver                                                            *)
(***************************************************************************)
\* variant: run_automation returns at once when setup_driver failed
SetupReturnsChecked(r) ==
    /\ setupResult' = r
    /\ pc' = IF r = "True" THEN "fetch" ELSE "finally"

\* setup_driver returns r and run_automation goes on to the fetch
SetupReturns(r) ==
    /\ setupResult' = r
    /\ pc' = "fetch"

\* _setup_firefox_driver: True with a driver, or False without one (import
\* error, geckodriver install or FirefoxDriver(...) failing)
SetupFirefox ==
    /\ pc = "setup_firefox"
    /\ setupLog' = Append(setupLog, "firefox")
    /\ \E made \in BOOLEAN :
        IF made
        THEN /\ nDrivers' = nDrivers + 1
             /\ driver' = nDrivers + 1
             /\ IF Truthy(FirefoxReturn)
                THEN SetupReturns("True")
                ELSE setupResult' = setupResult /\ pc' = "setup_undetected"
        ELSE /\ UNCHANGED <<nDrivers, driver, setupResult>>
             /\ pc' = "setup_undetected"
    /\ UNCHANGED <<values, quitted, tempDir, nDirs, dirsExisting, escaped>>
    /\ UNCHANGED fetchVars
    /\ UNCHANGED recordVars
    /\ UNCHANGED auxVars

\* _setup_undetected_driver.  how = "import_error": the import raises;
\* "no_chrome": uc.Chrome(...) raises; "late_raise": the driver is made and
\* maximize_window raises; "done": the body runs to its end.  Every raise
\* is re-raised into setup_driver, whose except returns False.
SetupUndetected ==
    /\ pc = "setup_undetected"
    /\ setupLog' = Append(setupLog, "undetected")
    /\ \E how \in {"import_error", "no_chrome", "late_raise", "done"},
          prof \in ProfileOutcomes :
        /\ IF how = "import_error"
           THEN UNCHANGED <<tempDir, nDirs, dirsExisting>>
           ELSE /\ nDirs' = DirsAfterCreate(nDirs, prof)
                /\ tempDir' = TempDirAfterCreate(tempDir, nDirs, prof)
                /\ dirsExisting' = ExistingAfterCreate(dirsExisting, nDirs, prof)
        /\ IF how \in {"late_raise", "done"}
           THEN nDrivers' = nDrivers + 1 /\ driver' = nDrivers + 1
           ELSE UNCHANGED <<nDrivers, driver>>
        /\ IF how = "done"
           THEN IF Truthy(UndetectedReturn)
                THEN SetupReturns("True")
                ELSE setupResult' = setupResult /\ pc' = "setup_standard"
           ELSE SetupReturns("False")
    /\ UNCHANGED <<values, quitted, escaped>>
    /\ UNCHANGED fetchVars
    /\ UNCHANGED recordVars
    /\ UNCHANGED auxVars

\* _setup_standard_driver.  how = "no_chrome": both webdriver.Chrome(...)
\* attempts raise; "late_raise": the driver is made and execute_script or
\* maximize_window raises; "done": the body runs to its end.  After it
\* setup_driver logs "All driver setup methods failed" unless the return
\* value was truthy.
SetupStandard ==
    /\ pc = "setup_standard"
    /\ setupLog' = Append(setupLog, "standard")
    /\ \E how \in {"no_chrome", "late_raise", "done"},
          prof \in ProfileOutcomes :
        /\ nDirs' = DirsAfterCreate(nDirs, prof)
        /\ tempDir' = TempDirAfterCreate(tempDir, nDirs, prof)
        /\ dirsExisting' = ExistingAfterCreate(dirsExisting, nDirs, prof)
        /\ IF how \in {"late_raise", "done"}
           THEN nDrivers' = nDrivers + 1 /\ driver' = nDrivers + 1
           ELSE UNCHANGED <<nDrivers, driver>>
        /\ IF how = "done" /\ Truthy(StandardReturn)
           THEN SetupReturns("True")
           ELSE SetupReturns("False")
    /\ UNCHANGED <<values, quitted, escaped>>
    /\ UNCHANGED fetchVars
    /\ UNCHANGED recordVars
    /\ UNCHANGED auxVars

(***************************************************************************)
(* run_automation: fetch                                                   *)
(***************************************************************************)
\* pending_records = get_pending_records(); an empty result returns from
\* the try block, an exception would reach the outer except: both go to
\* the finally clause
FetchRecords ==
    /\ pc = "fetch"
    /\ \E readOk \in BOOLEAN :
        LET out == FetchOutcome(values, readOk) IN
        /\ fetches' = fetches + 1
        /\ readFailed' = ~readOk
        /\ fetchRaised' = out.raised
        /\ pending' = IF out.raised THEN << >> ELSE out.records
        /\ pc' = IF out.raised \/ out.records = << >> THEN "finally" ELSE "loop"
    /\ idx' = 1
    /\ UNCHANGED <<values, quitted, escaped>>
    /\ UNCHANGED setupVars
    /\ UNCHANGED recordVars
    /\ UNCHANGED auxVars

(***************************************************************************)
(* run_automation: the record loop and process_record                      *)
(***************************************************************************)
\* the record the loop is at
CurRow == pending[idx].row_number

\* variant: the loop stops at the first record that did not succeed
NextIndexStopOnFailure(i, o, n) == IF o = "True" THEN i + 1 ELSE n + 1

\* variant: a record that did not succeed is taken up again
NextIndexRetryFailed(i, o, n) == IF o = "True" THEN i + 1 ELSE i

\* position of the for loop after the record at position i ended with
\* outcome o, out of n records: the loop has no break and its except
\* clause swallows the exception, so it always moves to the next record
NextIndex(i, o, n) == i + 1

\* status process_record writes after the seven steps
SuccessStatus == sInProgress

\* variant: the loop writes the status the record was fetched with
FailureStatusPending == sPendingLit

\* status run_automation writes when process_record did not return True
FailureStatus == sFailed

\* does the else branch of the loop (process_record returned False) call
\* log_error: it only calls update_record_status
ElseBranchLogsError == FALSE

\* variant: process_record returns False when a sink write returned False
OutcomeAfterWritesChecked(ok1, ok2) == IF ok1 /\ ok2 THEN "True" ELSE "False"

\* what process_record returns after its sink writes, ok1 and ok2 being
\* what update_record_status and update_email_used did: both return values
\* are discarded and True is returned
OutcomeAfterWrites(ok1, ok2) == "True"

\* for record in pending_records: process_record(record) is entered
BeginRecord ==
    /\ pc = "loop"
    /\ idx <= Len(pending)
    /\ processed' = Append(processed, CurRow)
    /\ stepNo' = 1
    /\ invoked' = << >>
    /\ effects' = {}
    /\ pc' = "step"
    /\ UNCHANGED <<values, quitted, escaped, currentEmail, sinkCalls, outcomes>>
    /\ UNCHANGED setupVars
    /\ UNCHANGED fetchVars
    /\ UNCHANGED auxVars

\* one step of process_record is invoked and returns (or raises).  A step
\* that does not succeed may still have typed into the page (left).
InvokeStep ==
    /\ pc = "step"
    /\ \E res \in StepResults(stepNo, driver), left \in BOOLEAN :
        /\ invoked' = Append(invoked, [step |-> Steps[stepNo], result |-> res])
        /\ effects' = effects \cup
                        (IF res = "ok" \/ left THEN StepEffect(stepNo) ELSE {})
        /\ currentEmail' = EmailAfterStep(stepNo, res, currentEmail)
        /\ LET nxt == AfterStep(stepNo, res) IN
            /\ stepNo' = IF nxt = "next_step" THEN stepNo + 1 ELSE stepNo
            /\ pc' = CASE nxt = "next_step"    -> "step"
                       [] nxt = "all_steps_ok" -> "record_ok"
                       [] nxt = "return_false" -> "record_false"
                       [] OTHER                -> "record_except"
    /\ UNCHANGED <<values, quitted, escaped, sinkCalls, processed, outcomes>>
    /\ UNCHANGED setupVars
    /\ UNCHANGED fetchVars
    /\ UNCHANGED auxVars

\* all seven steps returned True: the status and, when self.current_email
\* is set, the email are written; process_record returns True and the loop
\* logs the success
RecordSucceeds ==
    /\ pc = "record_ok"
    /\ \E ok1 \in BOOLEAN, ok2 \in BOOLEAN :
        LET v1 == UpdateRecordStatus(values, CurRow, SuccessStatus, ok1)
            c1 == Append(sinkCalls, SinkCall("status", CurRow, SuccessStatus, ok1))
        IN
        /\ IF currentEmail # sEmpty
            THEN /\ values' = UpdateEmailUsed(v1, CurRow, currentEmail, ok2)
                 /\ sinkCalls' =
                      Append(c1, SinkCall("email", CurRow, currentEmail, ok2))
            ELSE /\ values' = v1
                 /\ sinkCalls' = c1
        /\ outcomes' = Append(outcomes, OutcomeAfterWrites(ok1, ok2))
    /\ idx' = NextIndex(idx, "True", Len(pending))
    /\ pc' = "loop"
    /\ stepNo' = 1
    /\ invoked' = << >>
    /\ effects' = {}
    /\ UNCHANGED <<quitted, escaped, currentEmail, processed, pending, fetches,
                   readFailed, fetchRaised>>
    /\ UNCHANGED setupVars
    /\ UNCHANGED auxVars

\* a step returned False: process_record returns False and the else branch
\* of the loop writes the failure status
RecordReturnsFalse ==
    /\ pc = "record_false"
    /\ \E ok1 \in BOOLEAN, ok2 \in BOOLEAN :
        LET v1 == UpdateRecordStatus(values, CurRow, FailureStatus, ok1)
            c1 == Append(sinkCalls, SinkCall("status", CurRow, FailureStatus, ok1))
        IN  IF ElseBranchLogsError
            THEN /\ values' = LogError(v1, CurRow, sErrMsg, ok2)
                 /\ sinkCalls' = Append(c1, SinkCall("error", CurRow, sErrMsg, ok2))
            ELSE /\ values' = v1
                 /\ sinkCalls' = c1
    /\ outcomes' = Append(outcomes, "False")
    /\ idx' = NextIndex(idx, "False", Len(pending))
    /\ pc' = "loop"
    /\ stepNo' = 1
    /\ invoked' = << >>
    /\ effects' = {}
    /\ UNCHANGED <<quitted, escaped, currentEmail, processed, pending, fetches,
                   readFailed, fetchRaised>>
    /\ UNCHANGED setupVars
    /\ UNCHANGED auxVars

\* an exception reached the except clause of process_record: it is logged,
\* log_error writes str(e), process_record returns False and the else
\* branch of the loop writes the failure status
RecordExceptHandled ==
    /\ pc = "record_except"
    /\ \E ok1 \in BOOLEAN, ok2 \in BOOLEAN :
        LET v1 == LogError(values, CurRow, sErrMsg, ok1)
            c1 == Append(sinkCalls, SinkCall("error", CurRow, sErrMsg, ok1))
        IN  /\ values' = UpdateRecordStatus(v1, CurRow, FailureStatus, ok2)
            /\ sinkCalls' =
                 Append(c1, SinkCall("status", CurRow, FailureStatus, ok2))
    /\ outcomes' = Append(outcomes, "False")
    /\ idx' = NextIndex(idx, "False", Len(pending))
    /\ pc' = "loop"
    /\ stepNo' = 1
    /\ invoked' = << >>
    /\ effects' = {}
    /\ UNCHANGED <<quitted, escaped, currentEmail, processed, pending, fetches,
                   readFailed, fetchRaised>>
    /\ UNCHANGED setupVars
    /\ UNCHANGED auxVars

\* the except clause of process_record raises itself before log_error (its
\* logger call fails): the exception reaches the except clause of the
\* loop, which writes the failure status and then the error text
RecordExceptEscapes ==
    /\ pc = "record_except"
    /\ \E ok1 \in BOOLEAN, ok2 \in BOOLEAN :
        LET v1 == UpdateRecordStatus(values, CurRow, FailureStatus, ok1)
            c1 == Append(sinkCalls, SinkCall("status", CurRow, FailureStatus, ok1))
        IN  /\ values' = LogError(v1, CurRow, sErrMsg, ok2)
            /\ sinkCalls' = Append(c1, SinkCall("error", CurRow, sErrMsg, ok2))
    /\ outcomes' = Append(outcomes, "raised")
    /\ idx' = NextIndex(idx, "raised", Len(pending))
    /\ pc' = "loop"
    /\ stepNo' = 1
    /\ invoked' = << >>
    /\ effects' = {}
    /\ UNCHANGED <<quitted, escaped, currentEmail, processed, pending, fetches,
                   readFailed, fetchRaised>>
    /\ UNCHANGED setupVars
    /\ UNCHANGED auxVars

\* the for loop is exhausted: "Automation completed" is logged
LoopDone ==
    /\ pc = "loop"
    /\ idx > Len(pending)
    /\ pc' = "finally"
    /\ UNCHANGED <<values, quitted, escaped>>
    /\ UNCHANGED setupVars
    /\ UNCHANGED fetchVars
    /\ UNCHANGED recordVars
    /\ UNCHANGED auxVars

(***************************************************************************)
(* run_automation: the finally clause                                      *)
(***************************************************************************)
\* if self.driver: self.driver.quit().  quitted records the driver quit()
\* was called on.  An exception of quit() is inside no try: it leaves the
\* finally clause and run_automation at once.
QuitDriver ==
    /\ pc = "finally"
    /\ IF driver = 0
       THEN /\ pc' = "cleanup"
            /\ UNCHANGED <<quitted, escaped>>
       ELSE \E quitOk \in BOOLEAN :
              /\ quitted' = quitted \cup {driver}
              /\ IF quitOk
                 THEN pc' = "cleanup" /\ UNCHANGED escaped
                 ELSE pc' = "closed" /\ escaped' = TRUE
    /\ UNCHANGED <<values, driver, nDrivers, tempDir, nDirs, dirsExisting,
                   setupLog, setupResult>>
    /\ UNCHANGED fetchVars
    /\ UNCHANGED recordVars
    /\ UNCHANGED auxVars

\* _cleanup_stealth_profile: rmtree(self.temp_dir, ignore_errors=True) when
\* self.temp_dir is set; run_automation returns
CleanupStealthProfile ==
    /\ pc = "cleanup"
    /\ \E removed \in BOOLEAN :
        dirsExisting' = ExistingAfterCleanup(dirsExisting, tempDir, removed)
    /\ pc' = "closed"
    /\ UNCHANGED <<values, driver, nDrivers, quitted, tempDir, nDirs, setupLog,
                   setupResult, escaped>>
    /\ UNCHANGED fetchVars
    /\ UNCHANGED recordVars
    /\ UNCHANGED auxVars

(***************************************************************************)
(* Specifications                                                          *)
(***************************************************************************)
Next ==
    \/ SetupFirefox
    \/ SetupUndetected
    \/ SetupStandard
    \/ FetchRecords
    \/ BeginRecord
    \/ InvokeStep
    \/ RecordSucceeds
    \/ RecordReturnsFalse
    \/ RecordExceptHandled
    \/ RecordExceptEscapes
    \/ LoopDone
    \/ QuitDriver
    \/ CleanupStealthProfile

\* one run of run_automation
Spec == Init /\ [][Next]_vars

\* every call made by the run returns or raises, so the run goes on as
\* long as it has a step to take
FairSpec == Spec /\ WF_vars(Next)

\* get_pending_records applied to a sheet
FetchNext == FetchRecords

FetchSpec == FetchInit /\ [][FetchNext]_vars

(***************************************************************************)
(* The sink operations applied to a sheet, one call at a time              *)
(***************************************************************************)
\* calls made in one history
MaxSinkCalls == 2

sOther == <<"x","@","y">>

\* a data row filled up to column N
SinkFullRow ==
    [i \in 1..ColN |->
        CASE i = ColH -> sPendingCap
          [] i = ColM -> sOther
          [] i = ColN -> sOther
          [] OTHER    -> sName]

\* sheets the calls start from: header only, a row ending at the status
\* column, a row filled up to column N
SinkSheets ==
    { <<RunHeader(ColH)>>,
      <<RunHeader(ColH), RunRow(ColH, sPendingCap)>>,
      <<RunHeader(ColH), SinkFullRow>> }

\* row numbers the calls are made with: a row of the sheet and one below
SinkRows == {2, 3}

\* values the calls are made with
SinkValues(op) ==
    CASE op = "status" -> {sInProgress, sFailed}
      [] op = "email"  -> {sManualEmail, sOther}
      [] OTHER         -> {sErrMsg, sOther}

\* a GoogleSheetsService about to serve sink calls
SinkInit ==
    /\ pc = "sink"
    /\ values \in SinkSheets
    /\ InitRest
    /\ InitAux

\* one call of the sink operation op
SinkOperation(op) ==
    /\ pc = "sink"
    /\ Len(sinkCalls) < MaxSinkCalls
    /\ \E row \in SinkRows, v \in SinkValues(op), ok \in BOOLEAN :
        LET c == SinkCall(op, row, v, ok) IN
        /\ values' = ApplySink(values, c)
        /\ sinkCalls' = Append(sinkCalls, c)
    /\ UNCHANGED <<pc, quitted, escaped, stepNo, invoked, effects,
                   currentEmail, processed, outcomes>>
    /\ UNCHANGED setupVars
    /\ UNCHANGED fetchVars
    /\ UNCHANGED auxVars

SinkUpdateRecordStatus == SinkOperation("status")
SinkUpdateEmailUsed    == SinkOperation("email")
SinkLogError           == SinkOperation("error")

SinkNext ==
    \/ SinkUpdateRecordStatus
    \/ SinkUpdateEmailUsed
    \/ SinkLogError

SinkSpec == SinkInit /\ [][SinkNext]_vars

(***************************************************************************)
(* The extraction functions applied to a message                           *)
(***************************************************************************)
\* a message with a body and a subject has arrived
OtpInit ==
    /\ pc = "extract"
    /\ values = << >>
    /\ body \in TextsUpTo(MaxTokens)
    /\ subject \in OtpSubjects
    /\ extractedBy = {}
    /\ textOtp = NoOtp
    /\ emailOtp = NoOtp
    /\ InitRest
    /\ InitPoll /\ InitMail /\ InitManual /\ InitLate

\* _extract_otp_from_text(body)
ExtractOtpFromTextCall ==
    /\ pc = "extract"
    /\ "text" \notin extractedBy
    /\ textOtp' = ExtractOtpFromText(body)
    /\ extractedBy' = extractedBy \cup {"text"}
    /\ UNCHANGED <<pc, body, subject, emailOtp>>
    /\ UNCHANGED <<runVars, pollVars, mailVars, manualVars, lateVars>>

\* extract_otp_from_email({'body': body, 'subject': subject})
ExtractOtpFromEmailCall ==
    /\ pc = "extract"
    /\ "email" \notin extractedBy
    /\ emailOtp' = ExtractOtpFromEmail(body, subject)
    /\ extractedBy' = extractedBy \cup {"email"}
    /\ UNCHANGED <<pc, body, subject, textOtp>>
    /\ UNCHANGED <<runVars, pollVars, mailVars, manualVars, lateVars>>

OtpNext ==
    \/ ExtractOtpFromTextCall
    \/ ExtractOtpFromEmailCall

OtpSpec == OtpInit /\ [][OtpNext]_vars

(***************************************************************************)
(* NusukBot.monitor_inbox_for_otp                                          *)
(***************************************************************************)
\* largest max_wait_time a monitor is called with, in seconds
MaxWait == 12

\* check_interval
CheckInterval == 5

\* seconds one get_otp call can take
PollDurations == {0, 1, 3}

\* seconds time.sleep(check_interval) can take beyond the interval
Oversleep == {0, 1}

\* variant: the loop goes on while the elapsed time is at most the limit
KeepPollingInclusive(e, limit) == e <= limit

\* the loop test: time.time() - start_time < max_wait_time
KeepPolling(e, limit) == e < limit

\* monitor_inbox_for_otp(email_address, max_wait_time) is entered and
\* start_time taken
PollInit ==
    /\ pc = "mon_test"
    /\ values = << >>
    /\ elapsed = 0
    /\ maxWaitTime \in 0..MaxWait
    /\ polls = << >>
    /\ monitorResult = "running"
    /\ InitRest
    /\ InitOtp /\ InitMail /\ InitManual /\ InitLate

\* the while test; when it fails the warning is logged and False returned
MonitorTest ==
    /\ pc = "mon_test"
    /\ IF KeepPolling(elapsed, maxWaitTime)
       THEN pc' = "mon_poll" /\ UNCHANGED monitorResult
       ELSE pc' = "mon_done" /\ monitorResult' = "False"
    /\ UNCHANGED <<elapsed, maxWaitTime, polls>>
    /\ UNCHANGED <<runVars, otpVars, mailVars, manualVars, lateVars>>

\* one get_otp call: it returns a code, returns None, or raises into the
\* except clause of the loop body, which logs a warning
MonitorPoll ==
    /\ pc = "mon_poll"
    /\ \E res \in {"code", "none", "raise"}, d \in PollDurations :
        /\ polls' = Append(polls, [at |-> elapsed, took |-> d, result |-> res])
        /\ elapsed' = elapsed + d
        /\ IF res = "code"
           THEN pc' = "mon_done" /\ monitorResult' = "True"
           ELSE pc' = "mon_sleep" /\ UNCHANGED monitorResult
    /\ UNCHANGED maxWaitTime
    /\ UNCHANGED <<runVars, otpVars, mailVars, manualVars, lateVars>>

\* time.sleep(check_interval)
MonitorSleep ==
    /\ pc = "mon_sleep"
    /\ \E over \in Oversleep : elapsed' = elapsed + CheckInterval + over
    /\ pc' = "mon_test"
    /\ UNCHANGED <<maxWaitTime, polls, monitorResult>>
    /\ UNCHANGED <<runVars, otpVars, mailVars, manualVars, lateVars>>

PollNext ==
    \/ MonitorTest
    \/ MonitorPoll
    \/ MonitorSleep

PollSpec == PollInit /\ [][PollNext]_vars

\* the thread of the monitor keeps running: get_otp returns (its requests
\* carry a timeout) and sleep returns
PollFairSpec == PollSpec /\ WF_vars(PollNext)

(***************************************************************************)
(* TempEmailServiceV2: generate_email and get_otp                          *)
(***************************************************************************)
\* messages in a mailbox
MaxInbox == 2

\* self.service_used after generate_email: Mail.tm when its four calls
\* succeed, else the first fallback that returns an address with '@', the
\* made-up address being the last of them
ServiceAfterGenerate(mailtm, tenMinute, tempMail) ==
    IF mailtm THEN "Mail.tm"
    ELSE IF tenMinute THEN "10MinuteMail"
    ELSE IF tempMail THEN "TempMail"
    ELSE "FakeEmail"

\* texts of delivered messages: one carrying a code, one without digits,
\* one with a two-digit number only
sDigit2 == <<"1","2">>
MailTexts == { sYourCodeIs \o sDigit6, sVerification, sCode \o <<" ">> \o sDigit2 }

\* _get_mailtm_otp: the code of the first of the first five messages, from
\* message k on, whose text + ' ' + html holds one (html empty here); None
\* when the list or a fetch call fails
RECURSIVE MailtmOtpFrom(_, _)
MailtmOtpFrom(msgs, k) ==
    IF k > Len(msgs) \/ k > 5 THEN NoOtp
    ELSE LET otp == ExtractOtpFromText(msgs[k] \o <<" ">>)
         IN  IF otp # NoOtp THEN otp ELSE MailtmOtpFrom(msgs, k + 1)

\* _try_10minutemail_otp and _try_tempmail_otp: both return None
FallbackOtp(msgs) == NoOtp

\* get_otp: the Mail.tm API when Mail.tm is in use with a token, else the
\* two fallback functions in turn
GetOtpResult(service, token, msgs, ok) ==
    IF service = "Mail.tm" /\ token
    THEN IF ok THEN MailtmOtpFrom(msgs, 1) ELSE NoOtp
    ELSE FallbackOtp(msgs)

\* TempEmailServiceV2() constructed
MailInit ==
    /\ pc = "generate"
    /\ values = << >>
    /\ InitRest
    /\ InitAux

\* generate_email
GenerateEmail ==
    /\ pc = "generate"
    /\ \E mailtm \in BOOLEAN, tenMinute \in BOOLEAN, tempMail \in BOOLEAN :
        /\ serviceUsed' = ServiceAfterGenerate(mailtm, tenMinute, tempMail)
        /\ authToken' = mailtm
    /\ pc' = "deliver"
    /\ UNCHANGED <<inbox, callsOk, gotOtp>>
    /\ UNCHANGED <<runVars, otpVars, pollVars, manualVars, lateVars>>

\* the site sends its messages to the address; a made-up address has no
\* mailbox and receives nothing
DeliverMessages ==
    /\ pc = "deliver"
    /\ \E n \in 0..MaxInbox :
        \E msgs \in [1..n -> MailTexts] :
            /\ serviceUsed = "FakeEmail" => n = 0
            /\ inbox' = msgs
    /\ pc' = "get_otp"
    /\ UNCHANGED <<serviceUsed, authToken, callsOk, gotOtp>>
    /\ UNCHANGED <<runVars, otpVars, pollVars, manualVars, lateVars>>

\* get_otp(email); ok = the provider answers every call made to it
GetOtp ==
    /\ pc = "get_otp"
    /\ \E ok \in BOOLEAN :
        /\ callsOk' = ok
        /\ gotOtp' = GetOtpResult(serviceUsed, authToken, inbox, ok)
    /\ pc' = "got"
    /\ UNCHANGED <<serviceUsed, authToken, inbox>>
    /\ UNCHANGED <<runVars, otpVars, pollVars, manualVars, lateVars>>

MailNext ==
    \/ GenerateEmail
    \/ DeliverMessages
    \/ GetOtp

MailSpec == MailInit /\ [][MailNext]_vars

(***************************************************************************)
(* The manual steps: NusukBot.create_account and verify_email_otp          *)
(***************************************************************************)
\* wait_time of create_account and of verify_email_otp, in seconds
CreateAccountWait == 15
VerifyOtpWait == 20

\* what the probes of a step can find on the page: a displayed OTP input
\* field, 'error'/'failed' and 'success'/'verification' in the page source,
\* a displayed success indicator after the wait
Pages ==
    [otpField : BOOLEAN, errorWord : BOOLEAN, successWord : BOOLEAN,
     successIndicator : BOOLEAN]

\* variant: without an OTP field the step succeeds only on a success word
VerifyWithoutFieldStrict(pg) ==
    IF pg.errorWord \/ ~pg.successWord THEN "False" ELSE "True"

\* verify_email_otp when no OTP field is displayed: False when the page
\* source holds 'error' or 'failed', True otherwise (with or without
\* 'success' / 'verification')
VerifyWithoutField(pg) == IF pg.errorWord THEN "False" ELSE "True"

\* what either step returns after its wait and its probe of the success
\* indicators, found telling whether one was displayed: True in both cases
AfterSuccessProbe(found) == "True"

\* a manual step is entered with the page in some condition
ManualInit ==
    /\ pc = "manual"
    /\ values = << >>
    /\ manualStep \in {"create_account", "verify_otp"}
    /\ page \in Pages
    /\ ticks = 0
    /\ probed = {}
    /\ manualResult = "running"
    /\ InitRest
    /\ InitOtp /\ InitPoll /\ InitMail /\ InitLate

\* verify_email_otp: after time.sleep(3) the OTP selectors are probed;
\* with no field displayed the page source decides and the step returns
\* without waiting
VerifyOtpFieldProbe ==
    /\ pc = "manual"
    /\ manualStep = "verify_otp"
    /\ IF page.otpField
       THEN /\ probed' = {"otp_field"}
            /\ pc' = "countdown"
            /\ UNCHANGED manualResult
       ELSE /\ probed' = {"otp_field", "page_source"}
            /\ manualResult' = VerifyWithoutField(page)
            /\ pc' = "returned"
    /\ UNCHANGED <<manualStep, page, ticks, currentEmail>>
    /\ UNCHANGED <<runVarsButEmail, otpVars, pollVars, mailVars, lateVars>>

\* create_account starts its countdown at once
CreateAccountBegin ==
    /\ pc = "manual"
    /\ manualStep = "create_account"
    /\ pc' = "countdown"
    /\ UNCHANGED <<manualVars, currentEmail>>
    /\ UNCHANGED <<runVarsButEmail, otpVars, pollVars, mailVars, lateVars>>

\* the wait of the step, in seconds
WaitOf(step) ==
    IF step = "create_account" THEN CreateAccountWait ELSE VerifyOtpWait

\* one turn of the countdown loop: time.sleep(1)
CountdownTick ==
    /\ pc = "countdown"
    /\ ticks < WaitOf(manualStep)
    /\ ticks' = ticks + 1
    /\ UNCHANGED <<pc, manualStep, page, probed, manualResult, currentEmail>>
    /\ UNCHANGED <<runVarsButEmail, otpVars, pollVars, mailVars, lateVars>>

\* the countdown is over: the success indicators are probed and the step
\* returns True, also when the probing raises into the inner except
\* clause; create_account stores the placeholder email on both paths
SuccessProbe ==
    /\ pc = "countdown"
    /\ ticks = WaitOf(manualStep)
    /\ \E innerRaise \in BOOLEAN :
        probed' = probed \cup {"success_indicators"} \cup
                    (IF innerRaise THEN {"inner_except"} ELSE {})
    /\ manualResult' = AfterSuccessProbe(page.successIndicator)
    /\ currentEmail' = IF manualStep = "create_account"
                       THEN sManualEmail ELSE currentEmail
    /\ pc' = "returned"
    /\ UNCHANGED <<manualStep, page, ticks>>
    /\ UNCHANGED <<runVarsButEmail, otpVars, pollVars, mailVars, lateVars>>

\* an exception reaches the outer except clause of the step (a driver call
\* outside the inner try blocks raises): it is logged and False returned
OuterExcept ==
    /\ pc \in {"manual", "countdown"}
    /\ probed' = probed \cup {"outer_except"}
    /\ manualResult' = "False"
    /\ pc' = "returned"
    /\ UNCHANGED <<manualStep, page, ticks, currentEmail>>
    /\ UNCHANGED <<runVarsButEmail, otpVars, pollVars, mailVars, lateVars>>

ManualNext ==
    \/ VerifyOtpFieldProbe
    \/ CreateAccountBegin
    \/ CountdownTick
    \/ SuccessProbe
    \/ OuterExcept

ManualSpec == ManualInit /\ [][ManualNext]_vars

(***************************************************************************)
(* Selector lists: the loops over locator variants inside the steps        *)
(***************************************************************************)
\* lengths of visa_selectors, foreign_guest_selectors and dob_selectors
VisaVariants == 6
ForeignGuestVariants == 11
DobVariants == 5

\* the loops modelled: the visa field of fill_initial_info, the fallback
\* of select_foreign_guest, the date of birth of fill_personal_details
Locators == {"visa_selectors", "foreign_guest_selectors", "dob_selectors"}

NumVariants(l) ==
    CASE l = "visa_selectors" -> VisaVariants
      [] l = "foreign_guest_selectors" -> ForeignGuestVariants
      [] OTHER -> DobVariants

\* what can happen to one variant: the wait times out (TimeoutException,
\* NoSuchElementException), the element resolves and is used, the element
\* resolves and using it raises another exception, or (date of birth) the
\* element resolves and the record holds no value to type
VariantOutcomes(l) ==
    {"timeout", "used", "use_raised"} \cup
        (IF l = "dob_selectors" THEN {"no_value"} ELSE {})

\* the element of the variant was located
Resolved(o) == o # "timeout"

\* what the loop body does with the outcome of a variant: "continue"
\* with the next variant, "break" with the element filled, or return
AfterVariant(l, o) ==
    CASE o = "timeout" -> "continue"
      [] o = "used" ->
            IF l = "foreign_guest_selectors" THEN "True" ELSE "break"
      [] o = "use_raised" ->
            IF l = "foreign_guest_selectors" THEN "continue" ELSE "False"
      [] OTHER -> "False"

\* what follows the loop when no variant ended it: the visa and date of
\* birth loops return False, select_foreign_guest searches the page text
AfterList(l) ==
    IF l = "foreign_guest_selectors" THEN "text_search" ELSE "False"

\* the text search of select_foreign_guest: True when an element carrying
\* the text was clicked, False otherwise
AfterTextSearch(clicked) == IF clicked THEN "True" ELSE "False"

\* a step reaches one of its selector lists
LocatorInit ==
    /\ pc = "loc_loop"
    /\ values = << >>
    /\ locator \in Locators
    /\ attempts = << >>
    /\ locResult = "running"
    /\ InitRest
    /\ InitOtp /\ InitPoll /\ InitMail /\ InitManual
    /\ InitRerun /\ InitPassport

\* one turn of the for loop: the next variant of the list is tried
TryVariant ==
    /\ pc = "loc_loop"
    /\ Len(attempts) < NumVariants(locator)
    /\ \E o \in VariantOutcomes(locator) :
        LET a == AfterVariant(locator, o) IN
        /\ attempts' = Append(attempts,
                          [variant |-> Len(attempts) + 1, outcome |-> o])
        /\ IF a = "continue"
           THEN UNCHANGED <<pc, locResult>>
           ELSE pc' = "loc_done" /\ locResult' = a
    /\ UNCHANGED locator
    /\ UNCHANGED <<runVars, otpVars, pollVars, mailVars, manualVars>>
    /\ UNCHANGED <<rerunVars, passportVars>>

\* the for loop ran off the end of the list
ListExhausted ==
    /\ pc = "loc_loop"
    /\ Len(attempts) = NumVariants(locator)
    /\ IF AfterList(locator) = "text_search"
       THEN pc' = "loc_text_search" /\ UNCHANGED locResult
       ELSE pc' = "loc_done" /\ locResult' = AfterList(locator)
    /\ UNCHANGED <<locator, attempts>>
    /\ UNCHANGED <<runVars, otpVars, pollVars, mailVars, manualVars>>
    /\ UNCHANGED <<rerunVars, passportVars>>

\* select_foreign_guest looks through the page for a clickable element
\* carrying the text
TextSearch ==
    /\ pc = "loc_text_search"
    /\ \E clicked \in BOOLEAN : locResult' = AfterTextSearch(clicked)
    /\ pc' = "loc_done"
    /\ UNCHANGED <<locator, attempts>>
    /\ UNCHANGED <<runVars, otpVars, pollVars, mailVars, manualVars>>
    /\ UNCHANGED <<rerunVars, passportVars>>

LocatorNext ==
    \/ TryVariant
    \/ ListExhausted
    \/ TextSearch

LocatorSpec == LocatorInit /\ [][LocatorNext]_vars

(***************************************************************************)
(* A run followed by another get_pending_records on the same sheet         *)
(***************************************************************************)
\* data rows below the header in the sheets of this specification
MaxRerunRows == 2

\* sheets over the range A:N whose status header sits in column sc
RerunHeader(sc) == [i \in 1..ColN |-> IF i = sc THEN sSTATUS ELSE sName]
RerunRow(sc, c) == [i \in 1..ColN |-> IF i = sc THEN c ELSE sName]
RerunSheetsAt(sc) ==
    { <<RerunHeader(sc)>> \o rows :
        rows \in UNION { [1..n -> {RerunRow(sc, c) : c \in RunCells}] :
                          n \in 0..MaxRerunRows } }
RerunSheets == UNION { RerunSheetsAt(sc) : sc \in 1..ColN }

\* the sink calls process_record and the loop of run_automation make for
\* the record of row r, by the way the record ends: all steps succeeded;
\* a step returned False; an exception was handled in process_record; an
\* exception reached the loop
RecordWrites(r, ending) ==
    CASE ending = "True" ->
            <<[op |-> "status", row |-> r, value |-> SuccessStatus],
              [op |-> "email", row |-> r, value |-> sManualEmail]>>
      [] ending = "False" ->
            <<[op |-> "status", row |-> r, value |-> FailureStatus]>>
      [] ending = "except" ->
            <<[op |-> "error", row |-> r, value |-> sErrMsg],
              [op |-> "status", row |-> r, value |-> FailureStatus]>>
      [] OTHER ->
            <<[op |-> "status", row |-> r, value |-> FailureStatus],
              [op |-> "error", row |-> r, value |-> sErrMsg]>>

\* the sheet and the call log after the writes ws, oks telling which of
\* them the sheet accepted
RECURSIVE SheetAfterWrites(_, _, _)
SheetAfterWrites(vals, ws, oks) ==
    IF ws = << >> THEN vals
    ELSE SheetAfterWrites(
            ApplySink(vals, SinkCall(ws[1].op, ws[1].row, ws[1].value, oks[1])),
            Tail(ws), Tail(oks))

\* the run variables this specification leaves alone
rerunRest ==
    <<driver, nDrivers, quitted, tempDir, nDirs, dirsExisting, setupLog,
      setupResult, readFailed, fetchRaised, stepNo, invoked, effects,
      currentEmail, processed, outcomes, escaped>>

RerunInit ==
    /\ pc = "rerun_fetch"
    /\ values \in RerunSheets
    /\ InitRest
    /\ InitOtp /\ InitPoll /\ InitMail /\ InitManual
    /\ InitLoc /\ InitRerun /\ InitPassport

\* pending_records = get_pending_records() of the run
RerunFetch ==
    /\ pc = "rerun_fetch"
    /\ pending' = GetPendingRecords(values)
    /\ fetches' = fetches + 1
    /\ pc' = "rerun_loop"
    /\ UNCHANGED <<values, idx, sinkCalls, refetched, rerunRest>>
    /\ UNCHANGED <<otpVars, pollVars, mailVars, manualVars, locVars,
                   passportVars>>

\* the loop processes the next record, which ends in one of the four ways
RerunRecord ==
    /\ pc = "rerun_loop"
    /\ idx <= Len(pending)
    /\ \E ending \in {"True", "False", "except", "raised"} :
        LET ws == RecordWrites(CurRow, ending) IN
        \E oks \in [1..Len(ws) -> BOOLEAN] :
            /\ values' = SheetAfterWrites(values, ws, oks)
            /\ sinkCalls' = sinkCalls \o
                 [k \in 1..Len(ws) |->
                    SinkCall(ws[k].op, ws[k].row, ws[k].value, oks[k])]
    /\ idx' = idx + 1
    /\ UNCHANGED <<pc, pending, fetches, refetched, rerunRest>>
    /\ UNCHANGED <<otpVars, pollVars, mailVars, manualVars, locVars,
                   passportVars>>

\* the run is over; get_pending_records is called again on the sheet
RerunSecondFetch ==
    /\ pc = "rerun_loop"
    /\ idx > Len(pending)
    /\ refetched' = GetPendingRecords(values)
    /\ fetches' = fetches + 1
    /\ pc' = "rerun_done"
    /\ UNCHANGED <<values, pending, idx, sinkCalls, rerunRest>>
    /\ UNCHANGED <<otpVars, pollVars, mailVars, manualVars, locVars,
                   passportVars>>

RerunNext ==
    \/ RerunFetch
    \/ RerunRecord
    \/ RerunSecondFetch

RerunSpec == RerunInit /\ [][RerunNext]_vars

(***************************************************************************)
(* fill_initial_info: the passport number                                  *)
(***************************************************************************)
\* the column names tried for the passport number, in the order of the
\* or-chain
PassportKeys ==
    <<"Passport NO", "PASSPORT NO", "Passport Number", "PASSPORT NUMBER",
      "Passport", "PASSPORT">>

\* default_passport
sDefaultPassport == <<"A","B","3","1","5","0","3","3">>

\* cell values of the passport columns of the sheets considered
sPassportA == <<"N","1","2","3","4","5","6","7">>
sPassportB == <<" ">>
PassportCells == {sEmpty, sPassportA, sPassportB}

\* record_data.get(key, '')
RecordGet(rec, key) == IF key \in DOMAIN rec THEN rec[key] ELSE sEmpty

\* a or b or ... over the keys from position k on: the first value that
\* is not empty, the last value when all are empty
RECURSIVE OrChain(_, _)
OrChain(rec, k) ==
    IF k = Len(PassportKeys) \/ RecordGet(rec, PassportKeys[k]) # sEmpty
    THEN RecordGet(rec, PassportKeys[k])
    ELSE OrChain(rec, k + 1)

\* passport_number of fill_initial_info
PassportNumber(rec) == OrChain(rec, 1)

\* variant: an empty passport number is typed as it is
PassportTypedNoDefault(rec) == PassportNumber(rec)

\* what is typed into the passport field
PassportTyped(rec) ==
    IF PassportNumber(rec) # sEmpty THEN PassportNumber(rec)
    ELSE sDefaultPassport

\* records holding any of the passport columns, with any of the values
PassportRecords ==
    UNION { [ks -> PassportCells] :
              ks \in SUBSET { PassportKeys[k] : k \in 1..Len(PassportKeys) } }

\* fill_initial_info has located the passport field of a record
PassportInit ==
    /\ pc = "passport"
    /\ values = << >>
    /\ recordData \in PassportRecords
    /\ typed = "unset"
    /\ passportFilled = FALSE
    /\ InitRest
    /\ InitOtp /\ InitPoll /\ InitMail /\ InitManual
    /\ InitLoc /\ InitRerun

\* the passport number is looked up and typed; passport_filled is set on
\* both branches and the loop over the selectors is left
FillPassport ==
    /\ pc = "passport"
    /\ typed' = PassportTyped(recordData)
    /\ passportFilled' = TRUE
    /\ pc' = "passport_done"
    /\ UNCHANGED recordData
    /\ UNCHANGED <<runVars, otpVars, pollVars, mailVars, manualVars>>
    /\ UNCHANGED <<locVars, rerunVars>>

PassportNext == FillPassport

PassportSpec == PassportInit /\ [][PassportNext]_vars

(***************************************************************************)
(* Properties                                                              *)
(***************************************************************************)
\* the sink calls made for row r
CallsFor(r) == { i \in 1..Len(sinkCalls) : sinkCalls[i].row = r }

\* effects the first n steps can have left
EffectsUpTo(n) == UNION { StepEffect(k) : k \in 1..n }

\* C1: within a process_record call the steps are invoked in the fixed
\* order navigate, switch-language, select-guest-type, fill-identity,
\* fill-personal, create-account, verify-otp, and a step is invoked only
\* after every earlier step returned success: no step follows a failure.
C1_StepsInOrderShortCircuit ==
    /\ Len(invoked) <= NumSteps
    /\ \A k \in 1..Len(invoked) :
        /\ invoked[k].step = Steps[k]
        /\ k < Len(invoked) => invoked[k].result = "ok"

\* C1 witness: select-guest-type has just failed as the third step invoked
C1_Witness ==
    /\ pc = "record_false"
    /\ Len(invoked) = 3
    /\ invoked[3] = [step |-> "select_guest_type", result |-> "fail"]

\* C2 (as claimed): every record that did not succeed got the status
\* "Failed" written and a non-empty error detail written, and while it is
\* processed no step beyond the ones invoked has left an effect.
C2_FailedWithErrorDetail ==
    /\ \A i \in 1..Len(outcomes) :
        outcomes[i] # "True" =>
            /\ \E c \in CallsFor(processed[i]) :
                sinkCalls[c].op = "status" /\ sinkCalls[c].value = sFailed
            /\ \E c \in CallsFor(processed[i]) :
                sinkCalls[c].op = "error" /\ sinkCalls[c].value # sEmpty
    /\ effects \subseteq EffectsUpTo(Len(invoked))

\* C3: a record whose seven steps all returned success ends as a success
\* (and only such a record does); for it "In Progress" and a non-empty
\* email are written, landing in columns H and M of its row when the
\* writes succeed, and neither "Failed" nor an error detail is written.
C3_SuccessWritesInProgress ==
    /\ pc = "record_ok" <=>
        /\ Len(invoked) = NumSteps
        /\ \A k \in 1..NumSteps : invoked[k].result = "ok"
    /\ \A i \in 1..Len(outcomes) :
        outcomes[i] = "True" =>
            LET r == processed[i] IN
            /\ \E c \in CallsFor(r) :
                sinkCalls[c].op = "status" /\ sinkCalls[c].value = sInProgress
            /\ \E c \in CallsFor(r) :
                sinkCalls[c].op = "email" /\ sinkCalls[c].value # sEmpty
            /\ \A c \in CallsFor(r) :
                /\ sinkCalls[c].op # "error"
                /\ sinkCalls[c].value # sFailed
            /\ (\A c \in CallsFor(r) : sinkCalls[c].ok) =>
                /\ Cell(values, r, ColH) = sInProgress
                /\ Cell(values, r, ColM) # sEmpty

\* C3 witness: the run has ended, its second record succeeded after an
\* earlier failed one, and its cells hold the status and the email
C3_Witness ==
    /\ pc = "closed"
    /\ Len(outcomes) = 2
    /\ outcomes[1] = "False"
    /\ outcomes[2] = "True"
    /\ Cell(values, processed[2], ColH) = sInProgress
    /\ Cell(values, processed[2], ColM) = sManualEmail

\* C4 (as claimed): once run_automation has finished, no temporary profile
\* directory made during the run exists.
C4_NoProfileDirLeft == pc = "closed" => dirsExisting = {}

\* C5 (as claimed): once run_automation has finished, every driver created
\* has been quit and the profile storage recorded for cleanup is gone.
C5_DriversQuitAndProfileReleased ==
    pc = "closed" =>
        /\ \A d \in 1..nDrivers : d \in quitted
        /\ tempDir # 0 => tempDir \notin dirsExisting

\* C6 (as claimed): at most one browser driver is created during a run.
C6_AtMostOneDriver == nDrivers <= 1

\* C7: process_record is invoked for the fetched records in fetch order,
\* once each, and when the run has finished it has been invoked for every
\* one of them, whatever the earlier records did.
C7_EveryRecordProcessedOnce ==
    /\ Len(processed) <= Len(pending)
    /\ \A i \in 1..Len(processed) : processed[i] = pending[i].row_number
    /\ \A i, j \in 1..Len(processed) : i # j => processed[i] # processed[j]
    /\ pc \in {"finally", "cleanup", "closed"} /\ fetches = 1
        => Len(processed) = Len(pending)
    /\ fetches <= 1

\* C7 witness: the run has finished, the first of two records ended in an
\* exception and the second was still processed
C7_Witness ==
    /\ pc = "closed"
    /\ Len(pending) = 2
    /\ Len(outcomes) = 2
    /\ outcomes[1] = "raised"
    /\ Len(processed) = 2

\* C8 (as claimed): a failed read makes get_pending_records raise to its
\* caller, unlike the empty result.
C8_ReadFailureRaises == readFailed => fetchRaised

\* the headers of the sheet contain no 'status', ignoring case
NoStatusHeader(vals) ==
    vals # << >> /\
    \A i \in 1..Len(vals[1]) : ~Contains(Lower(vals[1][i]), sStatusLit)

\* C9: for a sheet whose header row has no header containing 'status'
\* (ignoring case), get_pending_records returns the empty sequence and
\* raises nothing, whatever the data rows hold.
C9_NoStatusHeaderGivesEmpty ==
    fetches = 1 /\ NoStatusHeader(values) =>
        pending = << >> /\ ~fetchRaised

\* C9 witness: fetched from a sheet without a status header whose data row
\* holds "pending"
C9_Witness ==
    /\ fetches = 1
    /\ ~readFailed
    /\ Len(values) = 2
    /\ values[1] = <<sName, sDone>>
    /\ values[2] = <<sPendingLit>>
    /\ pending = << >>

\* column sc is the first header containing 'status', ignoring case
IsFirstStatusCol(vals, sc) ==
    /\ sc \in 1..Len(vals[1])
    /\ Contains(Lower(vals[1][sc]), sStatusLit)
    /\ \A j \in 1..(sc - 1) : ~Contains(Lower(vals[1][j]), sStatusLit)

\* sheet row k is a data row with "pending", ignoring case, in column sc
Qualifies(vals, sc, k) ==
    /\ k \in 2..Len(vals)
    /\ Len(vals[k]) >= sc
    /\ Lower(vals[k][sc]) = Lower(sPendingLit)

\* C10: after a read that succeeded, the result holds exactly the data rows
\* whose status cell is "pending" ignoring case, each with its 1-based
\* sheet row as row_number and its cells as data, in strictly increasing
\* row order; rows with no status cell are left out.
C10_ExactlyPendingRows ==
    fetches = 1 /\ ~readFailed /\ values # << >> =>
        \A sc \in 1..Len(values[1]) :
            IsFirstStatusCol(values, sc) =>
                /\ \A i \in 1..Len(pending) :
                    /\ Qualifies(values, sc, pending[i].row_number)
                    /\ pending[i].data = values[pending[i].row_number]
                /\ \A i, j \in 1..Len(pending) :
                    i < j => pending[i].row_number < pending[j].row_number
                /\ \A k \in 2..Len(values) :
                    Qualifies(values, sc, k) =>
                        \E i \in 1..Len(pending) : pending[i].row_number = k

\* C10 witness: the status column is the second one; of two data rows the
\* first is too short and the second, row 3, is returned
C10_Witness ==
    /\ fetches = 1
    /\ Len(values) = 3
    /\ values[1] = <<sName, sStatusLit>>
    /\ values[2] = <<sPendingLit>>
    /\ values[3] = <<sName, sPendingCap>>
    /\ Len(pending) = 1
    /\ pending[1].row_number = 3

\* row numbers of the fetched pending records
PendingRows == { pending[i].row_number : i \in 1..Len(pending) }

\* C11: every status value the run writes to the sink is "In Progress" or
\* "Failed", never "pending" in any letter case, and every sink call of the
\* run is for a row that is among the fetched pending records.
C11_StatusValuesAndRows ==
    \A i \in 1..Len(sinkCalls) :
        /\ sinkCalls[i].row \in PendingRows
        /\ sinkCalls[i].op = "status" =>
            /\ sinkCalls[i].value \in {sInProgress, sFailed}
            /\ Lower(sinkCalls[i].value) # sPendingLit

\* C11 witness: the run has ended after writing "Failed" for one fetched
\* record and "In Progress" for another
C11_Witness ==
    /\ pc = "closed"
    /\ \E i, j \in 1..Len(sinkCalls) :
        /\ sinkCalls[i].op = "status" /\ sinkCalls[i].value = sFailed
        /\ sinkCalls[j].op = "status" /\ sinkCalls[j].value = sInProgress
        /\ sinkCalls[i].row # sinkCalls[j].row

\* the step is a sink call made with the arguments of the call before it,
\* both updates having succeeded
RepeatedCall ==
    /\ Len(sinkCalls) >= 1
    /\ sinkCalls[Len(sinkCalls)].ok
    /\ sinkCalls' = Append(sinkCalls, sinkCalls[Len(sinkCalls)])

\* C12: update_record_status, update_email_used and log_error are
\* idempotent: a call repeated at once with the same row number and value
\* leaves the sheet as the first call left it, and applying any of them
\* twice to the sheet gives what applying it once gives.
C12_SinkOpsIdempotent ==
    /\ [][RepeatedCall => values' = values]_vars
    /\ [](\A op \in {"status", "email", "error"}, row \in SinkRows :
            \A v \in SinkValues(op) :
                LET c == SinkCall(op, row, v, TRUE) IN
                ApplySink(ApplySink(values, c), c) = ApplySink(values, c))

\* C12 witness: log_error was called twice with the same row and message
\* on a row below the sheet, and column N of that row holds the message
C12_Witness ==
    /\ pc = "sink"
    /\ Len(sinkCalls) = 2
    /\ sinkCalls[1] = SinkCall("error", 3, sErrMsg, TRUE)
    /\ sinkCalls[2] = sinkCalls[1]
    /\ Cell(values, 3, ColN) = sErrMsg

\* the column the claim gives each sink operation
ClaimedColumn(op) ==
    CASE op = "status" -> ColH
      [] op = "email"  -> ColM
      [] OTHER         -> ColN

\* the step is one sink call: its cell holds the value written and every
\* other cell of the sheet is as before; a failed call changes nothing
OneCellOverwritten ==
    LET n == Len(sinkCalls')
        c == sinkCalls'[n]
    IN  sinkCalls' = Append(sinkCalls, c) =>
          IF c.ok
          THEN /\ Cell(values', c.row, ClaimedColumn(c.op)) = c.value
               /\ \A r \in 1..(Len(values') + 1), k \in 1..(ColN + 1) :
                    <<r, k>> # <<c.row, ClaimedColumn(c.op)>> =>
                        Cell(values', r, k) = Cell(values, r, k)
          ELSE values' = values

\* wherever two more calls can be made, two successful calls of different
\* sink operations give the same sheet in either order (a failed call
\* changes nothing in any order)
SinkOpsCommute ==
    Len(sinkCalls) + 2 <= MaxSinkCalls =>
    \A ops \in { <<"status", "email">>, <<"status", "error">>,
                 <<"email", "error">> } :
        \A r1, r2 \in SinkRows :
            \A v1 \in SinkValues(ops[1]), v2 \in SinkValues(ops[2]) :
                LET a == SinkCall(ops[1], r1, v1, TRUE)
                    b == SinkCall(ops[2], r2, v2, TRUE)
                IN  ApplySink(ApplySink(values, a), b)
                      = ApplySink(ApplySink(values, b), a)

\* the cell of every successful call, unless a later successful call of the
\* same operation and row overwrote it, holds the value written
WrittenCellsStay ==
    \A i \in 1..Len(sinkCalls) :
        (/\ sinkCalls[i].ok
         /\ \A j \in (i + 1)..Len(sinkCalls) :
               ~(/\ sinkCalls[j].ok
                 /\ sinkCalls[j].op = sinkCalls[i].op
                 /\ sinkCalls[j].row = sinkCalls[i].row))
        => Cell(values, sinkCalls[i].row, ClaimedColumn(sinkCalls[i].op))
             = sinkCalls[i].value

\* C13: each sink operation overwrites exactly one cell of the given row
\* (status: column H, email: column M, error: column N) and leaves every
\* other cell unchanged; the three operations commute; and wherever the
\* calls stop, the cells already written hold what was written.
C13_OneCellFrameAndCommute ==
    /\ [][OneCellOverwritten]_vars
    /\ []SinkOpsCommute
    /\ []WrittenCellsStay

\* C13 witness: the calls stopped after the status of row 2 was written and
\* before any email was: column H holds the status, columns M and N of the
\* row are as they were
C13_Witness ==
    /\ pc = "sink"
    /\ sinkCalls = <<SinkCall("status", 2, sInProgress, TRUE)>>
    /\ Cell(values, 2, ColH) = sInProgress
    /\ Cell(values, 2, ColM) = sOther
    /\ Cell(values, 2, ColN) = sOther

\* the step ends a record whose seven steps all returned success
SevenStepsSucceeded ==
    /\ pc = "record_ok"
    /\ Len(invoked) = NumSteps
    /\ \A k \in 1..NumSteps : invoked[k].result = "ok"
    /\ pc' = "loop"

\* C14: a sink operation whose write fails returns False and raises
\* nothing, and the record is unaffected: process_record returns success
\* for a record whose seven steps succeeded whatever its sink writes did,
\* the loop goes on to the next record, and neither "Failed" nor an error
\* detail is written for that record.
C14_SinkFailureLeavesOutcome ==
    /\ [](\A i \in 1..Len(sinkCalls) :
            sinkCalls[i].ret = (IF sinkCalls[i].ok THEN "True" ELSE "False"))
    /\ [][SevenStepsSucceeded =>
            /\ outcomes' = Append(outcomes, "True")
            /\ idx' = idx + 1
            /\ escaped' = escaped
            /\ \A i \in (Len(sinkCalls) + 1)..Len(sinkCalls') :
                /\ sinkCalls'[i].op \in {"status", "email"}
                /\ sinkCalls'[i].value # sFailed]_vars
    /\ [](\A i \in 1..Len(outcomes) :
            outcomes[i] = "True" =>
                \A c \in CallsFor(processed[i]) :
                    sinkCalls[c].value # sFailed /\ sinkCalls[c].op # "error")

\* C14 witness: the run has ended; both sink writes of its one record
\* failed, the record counts as a success and its status cell is untouched
C14_Witness ==
    /\ pc = "closed"
    /\ outcomes = <<"True">>
    /\ Len(sinkCalls) = 2
    /\ ~sinkCalls[1].ok /\ sinkCalls[1].ret = "False"
    /\ ~sinkCalls[2].ok /\ sinkCalls[2].ret = "False"
    /\ Cell(values, processed[1], ColH) = sPendingCap

\* C15 (as claimed): no exception leaves run_automation, whatever fails in
\* setup, fetch, processing, sink calls, browser shutdown or profile
\* deletion, and once the run has ended the cells written for the records
\* still hold what was written.
C15_NoExceptionEscapes ==
    /\ ~escaped
    /\ pc = "closed" => WrittenCellsStay

\* position i of t starts a run of consecutive digits that no digit precedes
RunStartsAt(t, i) ==
    /\ i \in 1..Len(t)
    /\ IsDigit(t[i])
    /\ i > 1 => ~IsDigit(t[i - 1])

\* t has a run of consecutive digits of a length between 4 and 6
HasCodeRun(t) ==
    \E i \in 1..Len(t) : RunStartsAt(t, i) /\ DigitsFrom(t, i) \in 4..6

\* C16 (as claimed): the extraction returns none for every text with no run
\* of consecutive digits of a length between 4 and 6, runs shorter than 4
\* or longer than 6 included, and for "Your code is 482913" it returns
\* 482913.
C16_NoCodeRunGivesNone ==
    /\ "text" \in extractedBy =>
        /\ ~HasCodeRun(body) => textOtp = NoOtp
        /\ body = sYourCodeIs \o sDigit6 => textOtp = sDigit6
    /\ "email" \in extractedBy =>
        /\ ~HasCodeRun(body) /\ ~HasCodeRun(subject) => emailOtp = NoOtp
        /\ body = sYourCodeIs \o sDigit6 => emailOtp = sDigit6

\* the patterns of the list that match somewhere in t
MatchingPatterns(t) ==
    { k \in 1..Len(OtpPatterns) :
        \E i \in 1..Len(t) : MatchAt(OtpPatterns[k], t, i) # NoOtp }

\* what the leftmost match of pattern k in t reports
LeftmostMatch(k, t) ==
    MatchAt(OtpPatterns[k], t,
            CHOOSE i \in 1..Len(t) :
                /\ MatchAt(OtpPatterns[k], t, i) # NoOtp
                /\ \A j \in 1..(i - 1) : MatchAt(OtpPatterns[k], t, j) = NoOtp)

\* the first pattern of the list that matches t
FirstMatching(t) ==
    CHOOSE k \in MatchingPatterns(t) : \A m \in MatchingPatterns(t) : k <= m

\* C17: extract_otp_from_email returns the first match of the first
\* pattern of the list that matches, the body being searched before the
\* subject: when any pattern matches the body the result comes from the
\* body, whatever the subject holds; the subject decides only when no
\* pattern matches the body; with no match in either the result is none.
C17_BodyBeforeSubjectFirstPattern ==
    "email" \in extractedBy =>
        IF MatchingPatterns(body) # {}
        THEN emailOtp = LeftmostMatch(FirstMatching(body), body)
        ELSE IF MatchingPatterns(subject) # {}
             THEN emailOtp = LeftmostMatch(FirstMatching(subject), subject)
             ELSE emailOtp = NoOtp

\* C17 witness: the body holds a seven-digit number and then a four-digit
\* code, the subject a labelled six-digit code; the result is the code of
\* the body, found by the first pattern, not the piece of the number the
\* last pattern finds first
C17_Witness ==
    /\ "email" \in extractedBy
    /\ body = sRefNumber \o sDigit4
    /\ subject = sOTP \o <<":", " ">> \o sDigit6
    /\ emailOtp = sDigit4

\* what holds of the polls made so far
PollsBounded ==
    /\ \A k \in 1..Len(polls) :
        /\ polls[k].at < maxWaitTime
        /\ polls[k].at >= (k - 1) * CheckInterval
        /\ k < Len(polls) =>
            /\ polls[k].result # "code"
            /\ polls[k + 1].at >= polls[k].at + polls[k].took + CheckInterval
    /\ monitorResult = "True" <=>
        Len(polls) >= 1 /\ polls[Len(polls)].result = "code"
    /\ monitorResult = "False" =>
        /\ pc = "mon_done"
        /\ elapsed >= maxWaitTime
        /\ \A k \in 1..Len(polls) : polls[k].result # "code"
    /\ pc = "mon_done" <=> monitorResult # "running"

\* a poll that raised is followed by the sleep and the loop test
RaiseKeepsPolling ==
    (/\ Len(polls') = Len(polls) + 1
     /\ polls'[Len(polls')].result = "raise")
    => pc' = "mon_sleep" /\ monitorResult' = "running"

\* C18: monitor_inbox_for_otp is a bounded poll: successive get_otp calls
\* are a sleep of the fixed interval apart, the first poll that yields a
\* code makes it return True with no further poll, no poll starts once the
\* elapsed time has reached max_wait_time, it returns False when no poll
\* started before that yielded a code, a poll that raises does not end the
\* polling, and the monitor always returns.
C18_BoundedPoll ==
    /\ []PollsBounded
    /\ [][RaiseKeepsPolling]_vars
    /\ <>(pc = "mon_done")

\* C18 witness: with max_wait_time 12 the first poll raised, the second
\* found nothing and the third, started before the limit, yielded the code
C18_Witness ==
    /\ pc = "mon_done"
    /\ maxWaitTime = 12
    /\ monitorResult = "True"
    /\ Len(polls) = 3
    /\ polls[1].result = "raise"
    /\ polls[2].result = "none"
    /\ polls[3].result = "code"

\* C19 (as claimed): whichever provider of generate_email's chain produced
\* the address, when a message carrying a code has been delivered and the
\* provider answered the calls, get_otp returns the code.
C19_EveryProviderYieldsCode ==
    (/\ pc = "got"
     /\ serviceUsed # "None"
     /\ callsOk
     /\ inbox = <<sYourCodeIs \o sDigit6>>)
    => gotOtp = sDigit6

\* the step returned and none of its probes found a success indicator:
\* no indicator displayed after the wait, no success word in the page
\* source
NoSuccessFound ==
    /\ pc = "returned"
    /\ "success_indicators" \in probed => ~page.successIndicator
    /\ "page_source" \in probed => ~page.successWord

\* C20 (as claimed): a manual step whose probes found no success indicator
\* returns success, unless an exception reached its outer handler.
C20_NoIndicatorStillSucceeds ==
    NoSuccessFound /\ "outer_except" \notin probed => manualResult = "True"

\* C20 (amended): a manual step returns failure in two cases only: an
\* exception reached its outer handler, or it is verify_email_otp, no OTP
\* input field was displayed and the page source holds 'error' or
\* 'failed'.  In every other case it returns success, whether or not a
\* success indicator was found, and create_account has then stored the
\* placeholder email.
C20_FailsOnlyOnErrorWordOrException ==
    pc = "returned" =>
        /\ manualResult \in {"True", "False"}
        /\ manualResult = "False" <=>
            \/ "outer_except" \in probed
            \/ /\ manualStep = "verify_otp"
               /\ "page_source" \in probed
               /\ ~page.otpField
               /\ page.errorWord
        /\ manualStep = "create_account" /\ manualResult = "True"
            => currentEmail = sManualEmail

\* C20 witness: verify_email_otp found no OTP field and neither an error
\* nor a success word in the page source, and returned success
C20_Witness ==
    /\ pc = "returned"
    /\ manualStep = "verify_otp"
    /\ probed = {"otp_field", "page_source"}
    /\ ~page.errorWord
    /\ ~page.successWord
    /\ manualResult = "True"

\* C21: every successful return of create_account or verify_email_otp is
\* preceded by the step's full wait window (15 one-second ticks for
\* create_account, 20 for verify_email_otp); the window is never cut short
\* or skipped
C21_SuccessAfterFullWait ==
    (pc = "returned" /\ manualResult = "True")
        => ticks = WaitOf(manualStep)

\* C22: within a step the locator variants are tried in list order, the
\* first variant that resolves is used and no later variant is tried, the
\* step returns failure when every variant failed to resolve, and a
\* variant that fails to resolve only moves the step on to the next one
C22_FirstResolvingVariantOnly ==
    /\ \A k \in 1..Len(attempts) :
          /\ attempts[k].variant = k
          /\ Resolved(attempts[k].outcome) => k = Len(attempts)
    /\ (/\ pc = "loc_done"
        /\ Len(attempts) = NumVariants(locator)
        /\ \A k \in 1..Len(attempts) : ~Resolved(attempts[k].outcome))
          => locResult = "False"
    /\ (/\ attempts # << >>
        /\ ~Resolved(attempts[Len(attempts)].outcome)
        /\ Len(attempts) < NumVariants(locator))
          => (pc = "loc_loop" /\ locResult = "running")

\* self.current_email of a newly constructed bot after the first n of the
\* steps in inv
RECURSIVE FreshEmailAfter(_, _)
FreshEmailAfter(inv, n) ==
    IF n = 0 THEN sEmpty
    ELSE EmailAfterStep(n, inv[n].result, FreshEmailAfter(inv, n - 1))

\* a sink call without what the sheet answered
WriteOf(c) == [op |-> c.op, row |-> c.row, value |-> c.value]

\* the sink writes a bot that has processed nothing before makes for the
\* record of row r whose steps behaved as inv, the record ending at
\* position at of process_record with outcome out
WritesOfFreshBot(r, inv, at, out) ==
    LET status(v) == [op |-> "status", row |-> r, value |-> v]
        error == [op |-> "error", row |-> r, value |-> sErrMsg]
        email == FreshEmailAfter(inv, Len(inv))
    IN  CASE at = "record_ok" ->
                <<status(SuccessStatus)>> \o
                (IF email # sEmpty
                 THEN <<[op |-> "email", row |-> r, value |-> email]>>
                 ELSE << >>)
          [] at = "record_false" -> <<status(FailureStatus)>>
          [] out = "False" -> <<error, status(FailureStatus)>>
          [] OTHER -> <<status(FailureStatus), error>>

\* a record ends: the writes made for it are those a bot without any
\* earlier record makes for the same record and the same step behaviour
SameWritesAsFreshBot ==
    (pc \in {"record_ok", "record_false", "record_except"} /\ pc' = "loop")
        => /\ Len(sinkCalls') > Len(sinkCalls)
           /\ SubSeq(sinkCalls', 1, Len(sinkCalls)) = sinkCalls
           /\ LET made == SubSeq(sinkCalls', Len(sinkCalls) + 1,
                                 Len(sinkCalls'))
              IN  [k \in 1..Len(made) |-> WriteOf(made[k])] =
                    WritesOfFreshBot(CurRow, invoked, pc,
                                     outcomes'[Len(outcomes')])

\* C23: the sink writes made for a record (status, email, error detail)
\* depend on the record and on how its seven steps behaved only, whatever
\* records were processed before it and whatever their outcomes were
C23_WritesIndependentOfHistory == [][SameWritesAsFreshBot]_vars

\* a record succeeded, and had its email written, after an earlier record
\* of the same run had failed
C23_Witness ==
    /\ Len(outcomes) = 2
    /\ outcomes[1] = "False"
    /\ outcomes[2] = "True"
    /\ \E k \in 1..Len(sinkCalls) :
          /\ sinkCalls[k].op = "email"
          /\ sinkCalls[k].row = processed[2]
          /\ sinkCalls[k].value = sManualEmail

\* the order in which setup_driver tries the drivers
SetupOrder == <<"firefox", "undetected", "standard">>

\* C24: setup_driver tries Firefox, undetected Chrome and standard Chrome
\* in that order, returns True as soon as one of them has produced a
\* driver, attempts no later driver after that, and returns False only
\* when all three attempts failed to produce a driver
C24_FirstWorkingDriverWins ==
    /\ Len(setupLog) <= Len(SetupOrder)
    /\ setupLog = SubSeq(SetupOrder, 1, Len(setupLog))
    /\ pc \in {"setup_undetected", "setup_standard"} => nDrivers = 0
    /\ setupResult = "True" => driver # 0
    /\ setupResult = "False" => (nDrivers = 0 /\ setupLog = SetupOrder)

\* the state of the run loop a position of run_automation belongs to:
\* Idle (0), FetchingRecords (1), ProcessingRecord with its Success and
\* Failed ends (2), Drained (3, 4), Closed (5)
LoopState(p) ==
    CASE p \in {"setup_firefox", "setup_undetected", "setup_standard"} -> 0
      [] p = "fetch" -> 1
      [] p \in {"loop", "step", "record_ok", "record_false",
                "record_except"} -> 2
      [] p = "finally" -> 3
      [] p = "cleanup" -> 4
      [] OTHER -> 5

\* the run never goes back to an earlier state of the loop, the loop
\* moves on by one record when a record ends and not otherwise, and
\* process_record is entered for the record the loop is at, which no
\* earlier call was entered for
RunMovesForward ==
    /\ LoopState(pc') >= LoopState(pc)
    /\ fetches' >= fetches
    /\ IF pc \in {"record_ok", "record_false", "record_except"}
       THEN idx' = idx + 1 /\ pc' = "loop"
       ELSE idx' = idx
    /\ processed' # processed
         => /\ processed' = Append(processed, pending[idx].row_number)
            /\ Len(processed') = idx

\* how far the run has come: the setup attempts, the fetch, then for
\* each record the entry of process_record, its steps and its end, then
\* the finally clause, the cleanup and the return
InRecord(p) ==
    CASE p = "loop" -> 0
      [] p = "step" -> stepNo
      [] OTHER -> NumSteps + 1
Progress ==
    CASE pc = "setup_firefox" -> 0
      [] pc = "setup_undetected" -> 1
      [] pc = "setup_standard" -> 2
      [] pc = "fetch" -> 3
      [] LoopState(pc) = 2 -> 4 + (idx - 1) * (NumSteps + 2) + InRecord(pc)
      [] OTHER -> (LoopState(pc) + 1) + (Len(pending) + 1) * (NumSteps + 2)

\* the largest value of Progress, reached when the run is closed
ProgressWhenClosed == 6 + (Len(pending) + 1) * (NumSteps + 2)

\* C25: the run goes through Idle, FetchingRecords, ProcessingRecord with
\* Success or Failed, the next record, Drained and Closed; whatever the
\* pending list and the step outcomes, it eventually reaches Closed
\* (every step the run takes brings it nearer to Closed, by a distance
\* the pending list bounds, and it always has a step to take until it is
\* closed); it fetches the pending list once and never revisits a record
C25_RunReachesClosed ==
    /\ [][RunMovesForward /\ Progress' > Progress]_vars
    /\ [](Progress <= ProgressWhenClosed)
    /\ [](pc = "closed" <=> Progress = ProgressWhenClosed)
    /\ [](pc # "closed" => ENABLED Next)
    /\ [](fetches <= 1)

\* the run is closed after a list of two records, of which one succeeded
\* and one did not
C25_Witness ==
    /\ pc = "closed"
    /\ fetches = 1
    /\ Len(pending) = 2
    /\ Len(outcomes) = 2
    /\ outcomes[1] # outcomes[2]

\* positions in sinkCalls of the status writes made for row r
StatusCallsFor(r) == { c \in CallsFor(r) : sinkCalls[c].op = "status" }

\* the step writes the status "In Progress"
WritesInProgress ==
    \E c \in (Len(sinkCalls) + 1)..Len(sinkCalls') :
        sinkCalls'[c].op = "status" /\ sinkCalls'[c].value = sInProgress

\* C26: each fetched record receives exactly one status write per run,
\* "In Progress" only after all seven steps returned success for it,
\* "Failed" only when process_record did not succeed, never both; the
\* email is never written for a record that ends the run as Failed
C26_OneStatusWritePerRecord ==
    /\ [](\A i \in 1..Len(pending) :
            LET r == pending[i].row_number IN
            IF i <= Len(outcomes)
            THEN /\ Cardinality(StatusCallsFor(r)) = 1
                 /\ \A c \in StatusCallsFor(r) :
                       sinkCalls[c].value =
                         (IF outcomes[i] = "True" THEN sInProgress
                                                  ELSE sFailed)
                 /\ outcomes[i] # "True" =>
                       \A c \in CallsFor(r) : sinkCalls[c].op # "email"
            ELSE CallsFor(r) = {})
    /\ []((pc \in {"finally", "cleanup", "closed"} /\ fetches = 1)
            => Len(outcomes) = Len(pending))
    /\ [][WritesInProgress =>
            /\ Len(invoked) = NumSteps
            /\ \A k \in 1..NumSteps : invoked[k].result = "ok"]_vars

\* the run has ended after two fetched records: the first got the one
\* status write "In Progress" and its email, the second the one status
\* write "Failed" and nothing else
C26_Witness ==
    /\ pc = "closed"
    /\ Len(pending) = 2
    /\ outcomes = <<"True", "False">>
    /\ Len(sinkCalls) = 3
    /\ sinkCalls[1].value = sInProgress
    /\ sinkCalls[2].op = "email"
    /\ sinkCalls[3].value = sFailed

\* C27: after a run in which every sink write succeeded, a second
\* get_pending_records on the same sheet returns none of the rows the run
\* processed, wherever in columns A..N the status header sits
C27_ProcessedRowsNotRefetched ==
    (/\ pc = "rerun_done"
     /\ \A c \in 1..Len(sinkCalls) : sinkCalls[c].ok)
        => \A i \in 1..Len(refetched) :
              refetched[i].row_number \notin PendingRows

\* setup_driver has returned without any driver having been created
NoDriverCreated == setupResult # "unset" /\ nDrivers = 0

\* C28: run_automation does not act on what setup_driver returned: the
\* pending records are fetched whatever it was; when no browser driver
\* could be created the navigate step fails for each fetched record, no
\* later step is invoked, and every fetched record ends the run with the
\* status "Failed"
C28_NoDriverFailsEveryRecord ==
    /\ (setupResult # "unset" /\ pc # "fetch") => fetches = 1
    /\ NoDriverCreated =>
        /\ setupResult = "False"
        /\ driver = 0
        /\ Len(invoked) <= 1
        /\ \A k \in 1..Len(invoked) :
              invoked[k] = [step |-> "navigate", result |-> "fail"]
        /\ effects = {}
        /\ \A i \in 1..Len(outcomes) :
              /\ outcomes[i] = "False"
              /\ \E c \in CallsFor(processed[i]) :
                    /\ sinkCalls[c].op = "status"
                    /\ sinkCalls[c].value = sFailed
                    /\ sinkCalls[c].ok =>
                          Cell(values, processed[i], ColH) = sFailed
        /\ pc \in {"finally", "cleanup", "closed"} =>
              Len(outcomes) = Len(pending)

\* the run has ended without a driver; both fetched records hold "Failed"
C28_Witness ==
    /\ pc = "closed"
    /\ NoDriverCreated
    /\ Len(pending) = 2
    /\ outcomes = <<"False", "False">>
    /\ \A i \in 1..2 : Cell(values, pending[i].row_number, ColH) = sFailed

\* o is a string of 4 to 6 decimal digits
IsCode(o) == Len(o) \in 4..6 /\ \A k \in 1..Len(o) : IsDigit(o[k])

\* o occurs in t as a contiguous substring
OccursIn(o, t) ==
    \E i \in 1..(Len(t) - Len(o) + 1) : SubSeq(t, i, i + Len(o) - 1) = o

\* C29: every result of _extract_otp_from_text and extract_otp_from_email
\* other than none is a string of 4 to 6 decimal digits that occurs as a
\* contiguous substring of the searched text (the body, or for
\* extract_otp_from_email the body or the subject)
C29_ResultIsCodeOfText ==
    /\ ("text" \in extractedBy /\ textOtp # NoOtp)
          => (IsCode(textOtp) /\ OccursIn(textOtp, body))
    /\ ("email" \in extractedBy /\ emailOtp # NoOtp)
          => /\ IsCode(emailOtp)
             /\ OccursIn(emailOtp, body) \/ OccursIn(emailOtp, subject)

\* both functions were applied to "verification482913", where only a
\* labelled pattern matches, and returned the six digits
C29_Witness ==
    /\ extractedBy = {"text", "email"}
    /\ body = sVerification \o sDigit6
    /\ textOtp = sDigit6
    /\ emailOtp = sDigit6

\* positions in PassportKeys of the fields of rec that hold a value
FilledPassportFields(rec) ==
    { k \in 1..Len(PassportKeys) :
        PassportKeys[k] \in DOMAIN rec /\ rec[PassportKeys[k]] # sEmpty }

\* C30: the passport value typed by fill_initial_info is the first
\* non-empty value among the record's fields 'Passport NO', 'PASSPORT NO',
\* 'Passport Number', 'PASSPORT NUMBER', 'Passport', 'PASSPORT' in that
\* order; when all are missing or empty the default 'AB315033' is typed
\* and the step does not fail on that account
C30_FirstFilledPassportOrDefault ==
    pc = "passport_done" =>
        LET filled == FilledPassportFields(recordData) IN
        /\ passportFilled
        /\ filled = {} => typed = sDefaultPassport
        /\ \A k \in filled :
              (\A j \in filled : k <= j) => typed = recordData[PassportKeys[k]]

\* the default was typed for a record whose only passport field is empty
C30_Witness ==
    /\ pc = "passport_done"
    /\ DOMAIN recordData = {"PASSPORT NO"}
    /\ recordData["PASSPORT NO"] = sEmpty
    /\ typed = sDefaultPassport
    /\ passportFilled

====
